---- MODULE Spec2Model ----
(***************************************************************************)
(* Batch ingestion of customs documents (dankoney/boe-project).            *)
(*                                                                         *)
(*   - api/load_manifest_xml.py : manifest XML loader                      *)
(*       parse_manifest_xml, ingest_manifest_data, process_xml_files       *)
(*   - api/load_BOE_data_json.py : declaration JSON loader                 *)
(*       load_file_to_db, main_loader                                      *)
(*                                                                         *)
(* The store is PostgreSQL reached through psycopg2 with autocommit off:   *)
(* a connection holds one open transaction whose writes become visible at  *)
(* commit() and are discarded by rollback() or by close().                 *)
(***************************************************************************)
EXTENDS Integers, Sequences, FiniteSets, TLC

(***************************************************************************)
(* Values.  Python None / SQL NULL, and an XML element that is not there.  *)
(***************************************************************************)
None == "<None>"
Absent == "<absent>"

\* ---------------------------------------------------------------- bounds
\* direct calls of ingest_manifest_data in one behaviour
MaxIngest == 2
\* BillOfLading blocks in one manifest document
MaxBLs == 2

\* ------------------------------------------------------ manifest columns
\* manifest_header columns bound by HEADER_UPSERT_SQL, in parameter order
HeaderCols ==
    << "crn", "document_type", "document_name", "document_number",
       "message_type", "sender_id", "receiving_party", "notify_parties",
       "rotation_no", "rotation_no_creation_date", "vessel_name",
       "voyage_no", "carrier_code", "carrier_name", "vessel_nationality",
       "coload_yn", "inbound_outbound", "transport_mode",
       "port_of_discharge", "port_of_loading", "next_port_of_call",
       "final_destination", "shipping_agent_code", "agent_name",
       "customs_office_code", "eta", "etd", "issued_date" >>

HeaderColSet == {HeaderCols[i] : i \in 1..Len(HeaderCols)}

\* columns parse_manifest_xml passes through convert_date
DateCols == {"rotation_no_creation_date", "eta", "etd", "issued_date"}

\* columns HEADER_UPSERT_SQL sets from EXCLUDED without COALESCE
OverwriteCols == {"document_type", "document_name"}

\* --------------------------------------------------- coercion utilities
\* str.strip() on the texts the documents of this model carry
Strip(s) ==
    CASE s = " y " -> "y"
      [] s = " B " -> "B"
      [] s = " "   -> ""
      [] OTHER     -> s

\* safe_extract(element, xpath, default=''): the element's stripped text,
\* or the default when the element is absent or has no text
safe_extract(raw, default) ==
    IF raw # Absent /\ raw # "" THEN Strip(raw) ELSE default

\* datetime.strptime(date_str[:8], '%Y%m%d').date() on the texts used here
convert_date(s) ==
    IF s = "" \/ s = None THEN None
    ELSE CASE s = "20240105"    -> "2024-01-05"
           [] s = "20240207T10" -> "2024-02-07"
           [] OTHER             -> None

\* int(float(value)) if value else default, ValueError -> default
safe_int_extract(raw, default) ==
    LET value == safe_extract(raw, "")
    IN CASE value = "1"   -> 1
         [] value = "2"   -> 2
         [] value = "3"   -> 3
         [] value = "2.0" -> 2
         [] OTHER         -> default

\* json.dumps of the list of non-empty stripped NotifyParty texts
NotifyPartiesJson(rawList) ==
    LET kept == SelectSeq(rawList, LAMBDA n : n # "" /\ Strip(n) # "")
    IN CASE kept = << >>     -> "[]"
         [] kept = <<"x">>   -> "[\"x\"]"
         [] kept = <<" y ">> -> "[\"y\"]"
         [] OTHER            -> "[...]"

\* ------------------------------------------------------ manifest documents
(***************************************************************************)
(* A manifest XML file as the parser sees it:                              *)
(*   wellformed  ET.parse succeeds                                         *)
(*   blocks      the header blocks (DocumentReference, ...) are present    *)
(*   hdr         raw text of the element behind each header column         *)
(*   notify      raw texts of the NotifyParty elements                     *)
(*   bls         the BillOfLading blocks, each with its Containers and     *)
(*               Vehicles children                                         *)
(***************************************************************************)
CRNs == {"C1", "C2"}
BLNumbers == {"B1", "B2"}
DocTypes == {"HMNDOC", "AMNDOC", "ADLDOC", "XXXDOC"}
Fills == {Absent, "x", " y "}

\* raw text of a date element that goes with a fill value
RawDate(fill) ==
    CASE fill = "x"   -> "20240105"
      [] fill = " y " -> "20240207T10"
      [] OTHER        -> Absent

RawNotify(fill) == IF fill = Absent THEN << >> ELSE << fill >>

RawHeader(crn, dtype, fill) ==
    [c \in HeaderColSet |->
        CASE c = "crn"           -> crn
          [] c = "document_type" -> dtype
          [] c = "rotation_no"   -> "R1"
          [] c \in DateCols      -> RawDate(fill)
          [] OTHER               -> fill]

\* a BillOfLading block; version 1 carries two containers and a vehicle,
\* every other version one container
Block(bl, ver, consignee) ==
    [BLNumber |-> bl, BLVersionNo |-> ver, ConsigneeName |-> consignee,
     Containers |-> IF ver = "1" THEN << "K1", "K2" >> ELSE << "K1" >>,
     Vehicles |-> IF ver = "1" THEN << "CH1" >> ELSE << >>]

RawDoc(crn, dtype, fill, bls) ==
    [wellformed |-> TRUE, blocks |-> TRUE, hdr |-> RawHeader(crn, dtype, fill),
     notify |-> RawNotify(fill), bls |-> bls]

MalformedDoc == [RawDoc(Absent, Absent, Absent, << >>) EXCEPT !.wellformed = FALSE]
NoBlockDoc == [RawDoc(Absent, Absent, Absent, << >>) EXCEPT !.blocks = FALSE]

Consignee(fill) == IF fill = "x" THEN "A" ELSE IF fill = " y " THEN " B " ELSE Absent

\* the BL lists of the documents: one block for B1 (version 1 or 2), and
\* for the fill "x" also none, or (up to MaxBLs) a second block for another
\* BL number, the same BL again, or a block that lacks its BLNumber
BLLists(fill) ==
    LET one == {<< Block("B1", v, Consignee(fill)) >> : v \in {"1", "2.0"}}
        two == IF MaxBLs < 2 THEN {}
               ELSE { << Block("B1", "1", "A"), Block("B2", "1", "A") >>,
                      << Block("B1", "2", "A"), Block("B1", "2", " B ") >>,
                      << Block(Absent, "1", "A"), Block("B2", "2", "A") >> }
        three == IF MaxBLs < 3 THEN {}
                 ELSE { << Block("B1", "1", "A"), Block("B2", "1", "A"),
                           Block("B1", "3", "A") >> }
    IN IF fill = "x" THEN {<< >>} \cup one \cup two \cup three ELSE one

DocsFor(crn, dtype, fill) == {RawDoc(crn, dtype, fill, bls) : bls \in BLLists(fill)}

\* the documents a call may be given
Docs ==
    UNION {DocsFor("C1", t, f) : t \in {"HMNDOC", "AMNDOC"}, f \in Fills}
    \cup { RawDoc("C2", t, "x", << Block("B1", "1", "A") >>) : t \in {"HMNDOC", "AMNDOC"} }
    \cup { RawDoc("C1", "ADLDOC", f, << Block("B1", "2", Consignee(f)) >>) : f \in Fills }
    \cup { RawDoc("C2", "HMNDOC", "x",
                  << [Block("B1", "1", "A") EXCEPT !.Containers = << "K9" >>,
                                                   !.Vehicles = << >>] >>) }
    \cup { RawDoc("C1", "XXXDOC", "x", << Block("B1", "1", "A") >>),
           RawDoc(Absent, "HMNDOC", "x", << Block("B1", "1", "A") >>),
           MalformedDoc, NoBlockDoc }

\* ------------------------------------------------------------ the parser
RECURSIVE ChildRows(_, _, _)
\* the container (or vehicle) dictionaries of one block, in document order;
\* "no" is container_no, respectively chassis_no
ChildRows(raws, bl, ver) ==
    IF raws = << >> THEN << >>
    ELSE << [bl_number |-> bl, bl_version_no |-> ver, no |-> safe_extract(Head(raws), "")] >>
         \o ChildRows(Tail(raws), bl, ver)

RECURSIVE ParseBlocks(_, _)
\* the loop over BillOfLading blocks: a block without BLNumber is skipped
ParseBlocks(blocks, crn) ==
    IF blocks = << >>
    THEN [bl_list |-> << >>, container_list |-> << >>, vehicle_list |-> << >>]
    ELSE LET b == Head(blocks)
             rest == ParseBlocks(Tail(blocks), crn)
             bl_number == safe_extract(b.BLNumber, "")
             bl_version_no == safe_int_extract(b.BLVersionNo, 0)
         IN IF bl_number = "" THEN rest
            ELSE [bl_list |-> << [crn |-> crn, bl_number |-> bl_number,
                                  bl_version_no |-> bl_version_no,
                                  consignee_name |-> safe_extract(b.ConsigneeName, "")] >>
                              \o rest.bl_list,
                  container_list |-> ChildRows(b.Containers, bl_number, bl_version_no)
                                     \o rest.container_list,
                  vehicle_list |-> ChildRows(b.Vehicles, bl_number, bl_version_no)
                                   \o rest.vehicle_list]

\* header_data as parse_manifest_xml builds it (last_amended_at is a
\* placeholder the loader never binds)
ParseHeader(raw) ==
    [c \in HeaderColSet |->
        IF c \in DateCols THEN convert_date(safe_extract(raw.hdr[c], ""))
        ELSE IF c = "notify_parties" THEN NotifyPartiesJson(raw.notify)
        ELSE safe_extract(raw.hdr[c], "")]

\* parse_manifest_xml: raised = an AttributeError leaves the parser (a header
\* block is absent and safe_extract calls find on None); empty = ET.ParseError
\* was caught and the empty structure returned
parse_manifest_xml(raw) ==
    IF ~raw.wellformed
    THEN [raised |-> FALSE, empty |-> TRUE, header |-> [c \in HeaderColSet |-> ""],
          bl_list |-> << >>, container_list |-> << >>, vehicle_list |-> << >>]
    ELSE IF ~raw.blocks
    THEN [raised |-> TRUE, empty |-> TRUE, header |-> [c \in HeaderColSet |-> ""],
          bl_list |-> << >>, container_list |-> << >>, vehicle_list |-> << >>]
    ELSE LET header == ParseHeader(raw)
             b == ParseBlocks(raw.bls, header["crn"])
         IN [raised |-> FALSE, empty |-> FALSE, header |-> header,
             bl_list |-> b.bl_list, container_list |-> b.container_list,
             vehicle_list |-> b.vehicle_list]


\* ------------------------------------------------------------- the store
(***************************************************************************)
(* A view of the manifest tables, committed or inside a transaction:       *)
(*   hdr   manifest_header, a function from crn (its conflict target) to   *)
(*         the row                                                         *)
(*   bl    manifest_bl_details, a set of rows in which (bl_number,         *)
(*         bl_version_no), the conflict target of INSERT_NEW_BL_SQL, is    *)
(*         unique                                                          *)
(*   cont  manifest_container_details, a bag of rows (row -> copies)       *)
(*   veh   manifest_vehicle_details, a bag of rows                         *)
(***************************************************************************)
EmptyStore == [hdr |-> << >>, bl |-> {}, cont |-> << >>, veh |-> << >>]

COALESCE(a, b) == IF a # None THEN a ELSE b

\* an upsert whose DO UPDATE leaves last_amended_at as it was
UpsertKeepsAmendedAt(hdr, params, now) ==
    LET crn == params["crn"]
    IN IF crn \notin DOMAIN hdr
       THEN hdr @@ (crn :> (params @@ ("last_amended_at" :> now)))
       ELSE [hdr EXCEPT ![crn] =
                [c \in HeaderColSet \cup {"last_amended_at"} |->
                    IF c \in {"crn", "last_amended_at"} THEN @[c]
                    ELSE IF c \in OverwriteCols THEN params[c]
                    ELSE COALESCE(params[c], @[c])]]

\* HEADER_UPSERT_SQL with the 28 parameters params, at CURRENT_TIMESTAMP now
HEADER_UPSERT_SQL(hdr, params, now) ==
    LET crn == params["crn"]
    IN IF crn \notin DOMAIN hdr
       THEN hdr @@ (crn :> (params @@ ("last_amended_at" :> now)))
       ELSE [hdr EXCEPT ![crn] =
                [c \in HeaderColSet \cup {"last_amended_at"} |->
                    IF c = "last_amended_at" THEN now
                    ELSE IF c = "crn" THEN @[c]
                    ELSE IF c \in OverwriteCols THEN params[c]
                    ELSE COALESCE(params[c], @[c])]]

\* an UPDATE that matches no row
UpdateNothing(bl, bl_number, crn) == bl

\* UPDATE manifest_bl_details SET latest_bl = FALSE WHERE bl_number = ..
\* AND crn = .. AND latest_bl = TRUE
UPDATE_PREV_BL_VERSION_SQL(bl, bl_number, crn) ==
    { IF r.bl_number = bl_number /\ r.crn = crn /\ r.latest_bl
      THEN [r EXCEPT !.latest_bl = FALSE] ELSE r : r \in bl }

\* INSERT ... latest_bl = TRUE ... ON CONFLICT (bl_number, bl_version_no) DO NOTHING
INSERT_NEW_BL_SQL(bl, b) ==
    IF \E r \in bl : r.bl_number = b.bl_number /\ r.bl_version_no = b.bl_version_no
    THEN bl
    ELSE bl \cup {[crn |-> b.crn, bl_number |-> b.bl_number,
                   bl_version_no |-> b.bl_version_no,
                   consignee_name |-> b.consignee_name, latest_bl |-> TRUE]}

\* an existence check that finds nothing
ExistsNever(bl, bl_number, crn) == FALSE

\* SELECT EXISTS(SELECT 1 FROM manifest_bl_details WHERE bl_number = .. AND crn = ..)
CHECK_BL_EXISTS_SQL(bl, bl_number, crn) ==
    \E r \in bl : r.bl_number = bl_number /\ r.crn = crn

\* DELETE FROM manifest_container_details / manifest_vehicle_details
\* WHERE bl_number = .. AND bl_version_no = ..
DELETE_CHILDREN_SQL(bag, bl_number, bl_version_no) ==
    [r \in {q \in DOMAIN bag : ~(q.bl_number = bl_number /\ q.bl_version_no = bl_version_no)}
        |-> bag[r]]

\* INSERT INTO manifest_container_details / manifest_vehicle_details: no
\* conflict target, one more copy of the row
INSERT_CHILD_SQL(bag, row) ==
    IF row \in DOMAIN bag THEN [bag EXCEPT ![row] = @ + 1] ELSE bag @@ (row :> 1)

\* conn.commit(): the transaction's view becomes the committed store
Commit(committed, working) == working

\* a rollback that lets the transaction's writes through
RollbackKeeps(committed, working) == working

\* conn.rollback(), or close() with the transaction open: the committed
\* store stays as it was
Rollback(committed, working) == committed

\* ------------------------------------------- ingest_manifest_data, phases
\* the parameter tuple of the main upsert: header.get(col) for each column
header_params(header) == header

\* the minimal tuple of an amendment without vessel name
pending_params(header) ==
    [c \in HeaderColSet |->
        CASE c = "crn"           -> header["crn"]
          [] c = "document_type" -> header["document_type"]
          [] c = "rotation_no"   -> header["rotation_no"]
          [] OTHER               -> None]

\* PHASE 1: the reserving upsert of an amendment without a vessel name,
\* then the main upsert
HeaderPhase(store, header, now) ==
    LET reserved == IF header["document_type"] \in {"AMNDOC", "ADLDOC"}
                       /\ header["vessel_name"] = ""
                    THEN HEADER_UPSERT_SQL(store.hdr, pending_params(header), now)
                    ELSE store.hdr
    IN [store EXCEPT !.hdr = HEADER_UPSERT_SQL(reserved, header_params(header), now)]

\* PHASE 2, one pass of the loop over bl_list: the BL rows after it, and
\* whether bl_inserted was set
BlPass(bl, b, doc_type, crn) ==
    IF doc_type = "HMNDOC"
    THEN IF ~CHECK_BL_EXISTS_SQL(bl, b.bl_number, crn)
         THEN [bl |-> INSERT_NEW_BL_SQL(bl, b), bl_inserted |-> TRUE]
         ELSE [bl |-> bl, bl_inserted |-> FALSE]
    ELSE IF doc_type \in {"AMNDOC", "ADLDOC"}
    THEN [bl |-> INSERT_NEW_BL_SQL(UPDATE_PREV_BL_VERSION_SQL(bl, b.bl_number, crn), b),
          bl_inserted |-> TRUE]
    ELSE [bl |-> bl, bl_inserted |-> FALSE]

\* a PHASE 3 that deletes nothing
DeleteNone(bag, keys) == bag

RECURSIVE DeleteAll(_, _)
\* PHASE 3: the deletes for every key of bls_processed_keys
DeleteAll(bag, keys) ==
    IF keys = << >> THEN bag
    ELSE DeleteAll(DELETE_CHILDREN_SQL(bag, Head(keys)[1], Head(keys)[2]), Tail(keys))

InKeys(row, keys) ==
    \E i \in 1..Len(keys) : keys[i] = << row.bl_number, row.bl_version_no >>

\* containers_to_insert / vehicles_to_insert
ToInsert(list, keys) == SelectSeq(list, LAMBDA c : InKeys(c, keys))

RECURSIVE InsertAll(_, _)
\* PHASES 4 and 5: execute_batch of the child insert over the kept rows
InsertAll(bag, rows) ==
    IF rows = << >> THEN bag
    ELSE InsertAll(INSERT_CHILD_SQL(bag, Head(rows)), Tail(rows))


\* ------------------------------------------------------------------ state
VARIABLES
    db,       \* the committed manifest tables
    tx,       \* the tables as the open connection's transaction sees them
    ipc,      \* where ingest_manifest_data is
    cur,      \* the content of the file it was called on
    idx,      \* the position of the loop over bl_list
    keys,     \* bls_processed_keys
    ret,      \* the value the call returned
    clock,    \* the store's clock (CURRENT_TIMESTAMP), one tick per call
    pre,      \* history: the committed tables when the call was made
    lastOk,   \* history: the content of the last file ingested with success
              \* before the current call
    written,  \* history: (crn, bl_number) -> the version of the last committed
              \* call that counted the BL as written (bl_inserted)
    errAt     \* history: the step of the current call that raised, if any

ingestVars == << db, tx, ipc, cur, idx, keys, ret, clock, pre, lastOk, written, errAt >>

NoDoc == [RawDoc(Absent, Absent, Absent, << >>) EXCEPT !.wellformed = FALSE, !.blocks = FALSE]

\* parsed_data of the running call
Parsed == parse_manifest_xml(cur)

\* the states of ingest_manifest_data in which a statement or the commit is next
DbSteps == {"header", "bl", "delete", "containers", "vehicles", "commit"}

InitIngest ==
    /\ db = EmptyStore
    /\ tx = EmptyStore
    /\ ipc = "idle"
    /\ cur = NoDoc
    /\ idx = 0
    /\ keys = << >>
    /\ ret = "none"
    /\ clock = 0
    /\ pre = EmptyStore
    /\ lastOk = NoDoc
    /\ written = << >>
    /\ errAt = "none"

\* ingest_manifest_data(file_path) is entered and get_loader_connection
\* returns a connection: a transaction opens on the committed tables
IngestCall(doc) ==
    /\ ipc = "idle"
    /\ ipc' = "connected"
    /\ cur' = doc
    /\ tx' = db
    /\ pre' = db
    /\ clock' = clock + 1
    /\ idx' = 0
    /\ keys' = << >>
    /\ ret' = "none"
    /\ errAt' = "none"
    /\ UNCHANGED << db, lastOk, written >>

\* get_loader_connection meets psycopg2.OperationalError and calls
\* sys.exit(1): the process ends inside the call
IngestCallExit(doc) ==
    /\ ipc = "idle"
    /\ ipc' = "exited"
    /\ cur' = doc
    /\ pre' = db
    /\ clock' = clock + 1
    /\ ret' = "none"
    /\ errAt' = "none"
    /\ UNCHANGED << db, tx, idx, keys, lastOk, written >>

\* the call returns: its locals are gone, the connection is closed
Return(value, committed) ==
    /\ ipc' = "returned"
    /\ ret' = value
    /\ db' = committed
    /\ tx' = committed
    /\ idx' = 0
    /\ keys' = << >>

\* parse_manifest_xml and the CRN check (lines 341-350)
ParseStep ==
    /\ ipc = "connected"
    /\ IF Parsed.raised
       THEN Return("False", Rollback(db, tx)) /\ errAt' = "parse"
       ELSE IF Parsed.empty \/ Parsed.header["crn"] = ""
       THEN Return("False", Rollback(db, tx)) /\ errAt' = "none"
       ELSE /\ ipc' = "header"
            /\ UNCHANGED << db, tx, idx, keys, ret, errAt >>
    /\ UNCHANGED << cur, clock, pre, lastOk, written >>

\* the state after the header phase or a pass of the BL loop
AfterBl(i) == IF i > Len(Parsed.bl_list) THEN "delete" ELSE "bl"

\* PHASE 1 (lines 355-380)
HeaderStep ==
    /\ ipc = "header"
    /\ tx' = HeaderPhase(tx, Parsed.header, clock)
    /\ idx' = 1
    /\ ipc' = AfterBl(1)
    /\ UNCHANGED << db, cur, keys, ret, clock, pre, lastOk, written, errAt >>

\* PHASE 2, one pass of the loop (lines 385-411)
BlStep ==
    /\ ipc = "bl"
    /\ LET b == Parsed.bl_list[idx]
           r == BlPass(tx.bl, b, Parsed.header["document_type"], Parsed.header["crn"])
       IN /\ tx' = [tx EXCEPT !.bl = r.bl]
          /\ keys' = IF r.bl_inserted
                     THEN Append(keys, << b.bl_number, b.bl_version_no >>)
                     ELSE keys
    /\ idx' = idx + 1
    /\ ipc' = AfterBl(idx + 1)
    /\ UNCHANGED << db, cur, ret, clock, pre, lastOk, written, errAt >>

\* PHASE 3 (lines 413-416)
DeleteStep ==
    /\ ipc = "delete"
    /\ tx' = [tx EXCEPT !.cont = DeleteAll(@, keys), !.veh = DeleteAll(@, keys)]
    /\ ipc' = "containers"
    /\ UNCHANGED << db, cur, idx, keys, ret, clock, pre, lastOk, written, errAt >>

\* PHASE 4 (lines 418-432)
ContainerStep ==
    /\ ipc = "containers"
    /\ tx' = [tx EXCEPT !.cont = InsertAll(@, ToInsert(Parsed.container_list, keys))]
    /\ ipc' = "vehicles"
    /\ UNCHANGED << db, cur, idx, keys, ret, clock, pre, lastOk, written, errAt >>

\* PHASE 5 (lines 434-446)
VehicleStep ==
    /\ ipc = "vehicles"
    /\ tx' = [tx EXCEPT !.veh = InsertAll(@, ToInsert(Parsed.vehicle_list, keys))]
    /\ ipc' = "commit"
    /\ UNCHANGED << db, cur, idx, keys, ret, clock, pre, lastOk, written, errAt >>

RECURSIVE NoteWritten(_, _, _)
\* history: the keys of a committed call, recorded in order
NoteWritten(w, ks, crn) ==
    IF ks = << >> THEN w
    ELSE LET k == << crn, Head(ks)[1] >>
             w1 == IF k \in DOMAIN w THEN [w EXCEPT ![k] = Head(ks)[2]]
                   ELSE w @@ (k :> Head(ks)[2])
         IN NoteWritten(w1, Tail(ks), crn)

\* conn.commit() and return True (lines 448-450)
CommitStep ==
    /\ ipc = "commit"
    /\ Return("True", Commit(db, tx))
    /\ written' = NoteWritten(written, keys, Parsed.header["crn"])
    /\ UNCHANGED << cur, clock, pre, lastOk, errAt >>

\* whether the step that is next sends a statement to the store
Executes ==
    CASE ipc = "bl"         -> Parsed.header["document_type"] \in {"HMNDOC", "AMNDOC", "ADLDOC"}
      [] ipc = "delete"     -> keys # << >>
      [] ipc = "containers" -> ToInsert(Parsed.container_list, keys) # << >>
      [] ipc = "vehicles"   -> ToInsert(Parsed.vehicle_list, keys) # << >>
      [] OTHER              -> ipc \in DbSteps

\* a statement or the commit raises psycopg2.Error: rollback, return False
\* (lines 452-455)
DbError ==
    /\ ipc \in DbSteps
    /\ Executes
    /\ Return("False", Rollback(db, tx))
    /\ errAt' = ipc
    /\ UNCHANGED << cur, clock, pre, lastOk, written >>

\* ------------------------------------------------------ process_xml_files
\* runs of process_xml_files in one behaviour
MaxRuns == 2
\* files dropped into XML_INPUT_DIR in one behaviour
MaxDrops == 2

\* the names a dropped file may have
FileNames ==
    {"a_hmndoc.xml", "b_AMNDOC.XML", "c_ADLDOC.xml", "d_HMNDOC.xml", "notes.txt"}

\* f.endswith('.xml') or f.endswith('.XML')
IsXmlName(f) == f \in {"a_hmndoc.xml", "b_AMNDOC.XML", "c_ADLDOC.xml", "d_HMNDOC.xml"}

\* 'HMNDOC' not in f.upper(): the sort key (False sorts before True)
SortKey(f) == IF f \in {"a_hmndoc.xml", "d_HMNDOC.xml"} THEN 0 ELSE 1

\* the contents a dropped manifest file may have
XmlDocs ==
    { RawDoc("C1", "HMNDOC", "x", << Block("B1", "1", "A") >>),
      RawDoc("C1", "AMNDOC", " y ", << Block("B1", "2.0", " B ") >>),
      MalformedDoc }

VARIABLES
    xpc,              \* where process_xml_files is
    inDir,            \* XML_INPUT_DIR: file name -> content
    procDir,          \* XML_PROCESSED_DIR: the names moved there
    errDir,           \* a directory for failed manifest files
    queue,            \* files_to_process from the current file on
    processed_count,
    error_count,
    runs,             \* runs started so far
    drops,            \* files dropped so far
    listing,          \* history: os.listdir's order in the current run
    attempted,        \* history: the files ingest_manifest_data was called on
    failed,           \* history: the files whose ingestion returned False
    moved             \* history: the files the run moved to XML_PROCESSED_DIR

xmlVars == << xpc, inDir, procDir, errDir, queue, processed_count, error_count,
              runs, drops, listing, attempted, failed, moved >>

InitXml ==
    /\ xpc = "idle"
    /\ inDir = << >>
    /\ procDir = {}
    /\ errDir = {}
    /\ queue = << >>
    /\ processed_count = 0
    /\ error_count = 0
    /\ runs = 0
    /\ drops = 0
    /\ listing = << >>
    /\ attempted = << >>
    /\ failed = {}
    /\ moved = {}

\* the sequences that list every element of S once
Orders(S) ==
    {q \in [1..Cardinality(S) -> S] : \A i, j \in 1..Cardinality(S) : q[i] = q[j] => i = j}

RECURSIVE InsertSorted(_, _)
InsertSorted(f, q) ==
    IF q = << >> THEN << f >>
    ELSE IF SortKey(Head(q)) <= SortKey(f) THEN << Head(q) >> \o InsertSorted(f, Tail(q))
    ELSE << f >> \o q

\* a driver that takes the files in the order of the listing
ListingOrder(q) == q

RECURSIVE SortHmndocFirst(_)
\* files_to_process.sort(key=lambda f: 'HMNDOC' not in f.upper()): list.sort
\* is stable, so equal keys keep the order of the list
SortHmndocFirst(q) ==
    IF q = << >> THEN << >>
    ELSE InsertSorted(q[Len(q)], SortHmndocFirst(SubSeq(q, 1, Len(q) - 1)))

\* somebody puts a manifest file into XML_INPUT_DIR while no run is under way
DropFile(f, doc) ==
    /\ xpc = "idle"
    /\ ipc = "idle"
    /\ drops < MaxDrops
    /\ f \notin DOMAIN inDir
    /\ inDir' = inDir @@ (f :> doc)
    /\ drops' = drops + 1
    /\ UNCHANGED << xpc, procDir, errDir, queue, processed_count, error_count, runs,
                    listing, attempted, failed >>
    /\ UNCHANGED ingestVars
    /\ UNCHANGED moved

\* somebody takes away a file that the run has listed and not yet reached
\* (what the os.path.exists check of the loop is for)
RemoveFile(f) ==
    /\ xpc = "loop"
    /\ \E i \in 1..Len(queue) : queue[i] = f
    /\ f \in DOMAIN inDir
    /\ inDir' = [g \in DOMAIN inDir \ {f} |-> inDir[g]]
    /\ UNCHANGED << xpc, procDir, errDir, queue, processed_count, error_count, runs,
                    drops, listing, attempted, failed >>
    /\ UNCHANGED ingestVars
    /\ UNCHANGED moved

\* process_xml_files up to the loop (lines 470-495): list, filter, sort
StartRun(order) ==
    /\ xpc = "idle"
    /\ ipc = "idle"
    /\ runs < MaxRuns
    /\ runs' = runs + 1
    /\ LET files_to_process == SelectSeq(order, IsXmlName)
       IN /\ listing' = files_to_process
          /\ queue' = SortHmndocFirst(files_to_process)
          /\ xpc' = IF files_to_process = << >> THEN "done" ELSE "loop"
    /\ processed_count' = 0
    /\ error_count' = 0
    /\ attempted' = << >>
    /\ failed' = {}
    /\ moved' = {}
    /\ UNCHANGED << inDir, procDir, errDir, drops >>
    /\ UNCHANGED ingestVars

\* the loop takes the next file that still exists and calls
\* ingest_manifest_data on it (lines 497-504)
CallNext ==
    /\ xpc = "loop"
    /\ queue # << >>
    /\ Head(queue) \in DOMAIN inDir
    /\ IngestCall(inDir[Head(queue)])
    /\ xpc' = "calling"
    /\ attempted' = Append(attempted, Head(queue))
    /\ UNCHANGED << inDir, procDir, errDir, queue, processed_count, error_count,
                    runs, drops, listing, failed >>
    /\ UNCHANGED moved

\* the same call when the store cannot be reached: sys.exit(1) ends the run
CallNextExit ==
    /\ xpc = "loop"
    /\ queue # << >>
    /\ Head(queue) \in DOMAIN inDir
    /\ IngestCallExit(inDir[Head(queue)])
    /\ xpc' = "exited"
    /\ attempted' = Append(attempted, Head(queue))
    /\ UNCHANGED << inDir, procDir, errDir, queue, processed_count, error_count,
                    runs, drops, listing, failed >>
    /\ UNCHANGED moved

\* os.path.exists(input_path) is false: continue (lines 501-502)
SkipMissing ==
    /\ xpc = "loop"
    /\ queue # << >>
    /\ Head(queue) \notin DOMAIN inDir
    /\ queue' = Tail(queue)
    /\ UNCHANGED << xpc, inDir, procDir, errDir, processed_count, error_count,
                    runs, drops, listing, attempted, failed >>
    /\ UNCHANGED ingestVars
    /\ UNCHANGED moved

\* the call is over for the driver
Resume ==
    /\ ipc' = "idle"
    /\ cur' = NoDoc
    /\ ret' = "none"
    /\ pre' = db
    /\ lastOk' = IF ret = "True" THEN cur ELSE lastOk
    /\ errAt' = "none"
    /\ UNCHANGED << db, tx, idx, keys, clock, written >>

\* ingest returned True and shutil.move succeeds (lines 504-508)
TakeTrueMove ==
    /\ xpc = "calling"
    /\ ipc = "returned"
    /\ ret = "True"
    /\ processed_count' = processed_count + 1
    /\ inDir' = [f \in DOMAIN inDir \ {Head(queue)} |-> inDir[f]]
    /\ procDir' = procDir \cup {Head(queue)}
    /\ moved' = moved \cup {Head(queue)}
    /\ queue' = Tail(queue)
    /\ xpc' = "loop"
    /\ Resume
    /\ UNCHANGED << errDir, error_count, runs, drops, listing, attempted, failed >>

\* ingest returned True and shutil.move raises: the exception is printed
\* (lines 509-510)
TakeTrueMoveFails ==
    /\ xpc = "calling"
    /\ ipc = "returned"
    /\ ret = "True"
    /\ processed_count' = processed_count + 1
    /\ queue' = Tail(queue)
    /\ xpc' = "loop"
    /\ Resume
    /\ UNCHANGED << inDir, procDir, errDir, error_count, runs, drops, listing,
                    attempted, failed >>
    /\ UNCHANGED moved

\* a driver that moves a failed file into an error directory
TakeFalseToErrorDir ==
    /\ xpc = "calling"
    /\ ipc = "returned"
    /\ ret = "False"
    /\ error_count' = error_count + 1
    /\ failed' = failed \cup {Head(queue)}
    /\ inDir' = [f \in DOMAIN inDir \ {Head(queue)} |-> inDir[f]]
    /\ errDir' = errDir \cup {Head(queue)}
    /\ queue' = Tail(queue)
    /\ xpc' = "loop"
    /\ Resume
    /\ UNCHANGED << procDir, processed_count, runs, drops, listing, attempted >>
    /\ UNCHANGED moved

\* ingest returned False (lines 511-512)
TakeFalse ==
    /\ xpc = "calling"
    /\ ipc = "returned"
    /\ ret = "False"
    /\ error_count' = error_count + 1
    /\ failed' = failed \cup {Head(queue)}
    /\ queue' = Tail(queue)
    /\ xpc' = "loop"
    /\ Resume
    /\ UNCHANGED << inDir, procDir, errDir, processed_count, runs, drops, listing,
                    attempted >>
    /\ UNCHANGED moved

\* the loop is over: the summary is printed (lines 514-518)
EndRun ==
    /\ xpc = "loop"
    /\ queue = << >>
    /\ xpc' = "done"
    /\ UNCHANGED << inDir, procDir, errDir, queue, processed_count, error_count,
                    runs, drops, listing, attempted, failed >>
    /\ UNCHANGED ingestVars
    /\ UNCHANGED moved

\* the process of a finished or exited run is gone
Quit ==
    /\ xpc \in {"done", "exited"}
    /\ xpc' = "idle"
    /\ queue' = << >>
    /\ IF ipc = "exited" THEN Resume ELSE UNCHANGED ingestVars
    /\ UNCHANGED << inDir, procDir, errDir, processed_count, error_count,
                    runs, drops, listing, attempted, failed >>
    /\ UNCHANGED moved

\* ==================================================== load_BOE_data_json.py
\* runs of main_loader in one behaviour
MaxDeclRuns == 2
\* declaration files dropped into JSON_DIR_PATH in one behaviour
MaxDeclDrops == 2
\* records in the response list of one declaration file
MaxRecs == 2

\* a record of encodingData.response: boeHeader is a dict, JSON null, or the
\* key is missing; the other fields are what header.get() returns (None for
\* a missing key or JSON null)
BoeRecord(boeHeader, boeDate, crn, boeNo, blNumber, item) ==
    [boeHeader |-> boeHeader, boeDate |-> boeDate, crn |-> crn, boeNo |-> boeNo,
     blNumber |-> blNumber, item |-> item]

\* records that pass the checks of load_file_to_db: two that share
\* (crn, boeNo) and differ in everything else, and one with another BOE number
GoodRecords ==
    { BoeRecord("dict", "05/01/2024", "100", "5", "BLa", "i1"),
      BoeRecord("dict", "07/02/2024", "100", "5", "BLb", "i2"),
      BoeRecord("dict", "05/01/2024", "100", "6", None, "i3") }

\* records with a defect: no CRN, a date in another format, no date, a
\* boeHeader that is JSON null
BadRecords ==
    { BoeRecord("dict", "05/01/2024", None, "7", "BLa", "i4"),
      BoeRecord("dict", "2024-01-05", "100", "8", "BLa", "i5"),
      BoeRecord("missing", None, None, None, None, "i6"),
      BoeRecord("null", None, None, None, None, "i7") }

\* the content of a file json.load cannot read
Malformed == << BoeRecord("<not JSON>", None, None, None, None, "i0") >>

\* the contents a declaration file may have: text that is not JSON, or a
\* response list of up to MaxRecs records
DeclContents ==
    LET g == CHOOSE r \in GoodRecords : r.item = "i1"
        len1 == IF MaxRecs < 1 THEN {} ELSE {<< r >> : r \in GoodRecords \cup BadRecords}
        len2 == IF MaxRecs < 2 THEN {}
                ELSE {<< r, q >> : r, q \in GoodRecords}
                     \cup {<< g, q >> : q \in BadRecords} \cup {<< q, g >> : q \in BadRecords}
        len3 == IF MaxRecs < 3 THEN {}
                ELSE {<< g, q, r >> : q \in BadRecords, r \in GoodRecords \ {g}}
    IN {Malformed, << >>} \cup len1 \cup len2 \cup len3

DeclFileNames == {"Declaration_Json_1.json", "Declaration_Json_2.json", "other.json"}

\* glob of FILE_PATTERN 'Declaration_Json_*.json'
MatchesPattern(f) == f \in {"Declaration_Json_1.json", "Declaration_Json_2.json"}

\* datetime.strptime(s, '%d/%m/%Y').strftime('%Y-%m-%d'); None stands for
\* the ValueError of a text in another format
FormatBoeDate(s) ==
    CASE s = "05/01/2024" -> "2024-01-05"
      [] s = "07/02/2024" -> "2024-02-07"
      [] OTHER            -> None

\* a record loop without the check of crn_val and boe_no_val
RecordFateNoIdCheck(r) ==
    IF r.boeHeader = "null" THEN "raise"
    ELSE IF r.boeHeader = "missing" THEN "skip"
    ELSE IF r.boeDate = None \/ r.boeDate = "" THEN "skip"
    ELSE IF FormatBoeDate(r.boeDate) = None THEN "skip"
    ELSE "insert"

\* what one pass of the record loop does with a record (lines 35-58):
\* "raise" (AttributeError of None.get, caught only by the outer except),
\* "skip", or "insert"
RecordFate(r) ==
    IF r.boeHeader = "null" THEN "raise"
    ELSE IF r.boeHeader = "missing" THEN "skip"
    ELSE IF r.boeDate = None \/ r.boeDate = "" THEN "skip"
    ELSE IF FormatBoeDate(r.boeDate) = None THEN "skip"
    ELSE IF r.crn = None \/ r.crn = "" \/ r.boeNo = None \/ r.boeNo = "" THEN "skip"
    ELSE "insert"

\* the row of boe_records the insert of a record binds; data is
\* json.dumps(boe_record), the whole record
BoeRow(r) ==
    [crn |-> r.crn, boe_no |-> r.boeNo, boe_date |-> FormatBoeDate(r.boeDate),
     bl_number |-> r.blNumber, data |-> r]

\* an INSERT without conflict clause into a table without the unique index
InsertBoeAlways(tab, row) ==
    IF row \in DOMAIN tab THEN [tab EXCEPT ![row] = @ + 1] ELSE tab @@ (row :> 1)

\* an INSERT ... ON CONFLICT (crn, boe_no) DO UPDATE
InsertBoeUpdates(tab, row) ==
    [q \in {x \in DOMAIN tab : ~(x.crn = row.crn /\ x.boe_no = row.boe_no)} |-> tab[q]]
        @@ (row :> 1)

\* INSERT INTO boe_records ... ON CONFLICT (crn, boe_no) DO NOTHING; the
\* table is a bag of rows (row -> copies)
InsertBoe(tab, row) ==
    IF \E q \in DOMAIN tab : q.crn = row.crn /\ q.boe_no = row.boe_no
    THEN tab
    ELSE tab @@ (row :> 1)

VARIABLES
    ddb,             \* boe_records, committed
    dtx,             \* boe_records as the run's transaction sees it
    aborted,         \* the transaction is in PostgreSQL's failed state: every
                     \* statement raises until it ends, and COMMIT rolls back
    dpc,             \* where main_loader / load_file_to_db is
    dIn,             \* JSON_DIR_PATH: file name -> content
    dProc,           \* PROCESSED_DIR_PATH: file name -> content
    dqueue,          \* file_list from the current file on
    ridx,            \* the position of the record loop
    insert_count,
    skip_count,
    inserted,        \* what load_file_to_db returned
    total_inserted,
    druns,           \* runs started so far
    ddrops,          \* files dropped so far
    dpre,            \* history: boe_records when the run began
    dlist,           \* history: file name -> content, the files of the run
    dfailed,         \* history: the files whose load ended in the outer except
    drejected,       \* history: the files in which the store rejected a statement
    dloaded,         \* history: the files load_file_to_db processed to the end
    dmoved,          \* history: the files the run moved to the processed directory
    insertedBy       \* history: the rows the transaction added -> the file

declVars == << ddb, dtx, aborted, dpc, dIn, dProc, dqueue, ridx, insert_count,
               skip_count, inserted, total_inserted, druns, ddrops, dpre, dlist,
               dfailed, drejected, dloaded, dmoved, insertedBy >>

InitDecl ==
    /\ ddb = << >>
    /\ dtx = << >>
    /\ aborted = FALSE
    /\ dpc = "idle"
    /\ dIn = << >>
    /\ dProc = << >>
    /\ dqueue = << >>
    /\ ridx = 0
    /\ insert_count = 0
    /\ skip_count = 0
    /\ inserted = 0
    /\ total_inserted = 0
    /\ druns = 0
    /\ ddrops = 0
    /\ dpre = << >>
    /\ dlist = << >>
    /\ dfailed = {}
    /\ drejected = {}
    /\ dloaded = {}
    /\ dmoved = {}
    /\ insertedBy = << >>

\* a function without the argument x
Without(fn, x) == [y \in DOMAIN fn \ {x} |-> fn[y]]

\* a function with fn[x] = v
With(fn, x, v) == Without(fn, x) @@ (x :> v)

\* somebody puts a declaration file into JSON_DIR_PATH
DeclDrop(f, content) ==
    /\ dpc = "idle"
    /\ ddrops < MaxDeclDrops
    /\ f \notin DOMAIN dIn
    /\ dIn' = dIn @@ (f :> content)
    /\ ddrops' = ddrops + 1
    /\ UNCHANGED << ddb, dtx, aborted, dpc, dProc, dqueue, ridx, insert_count,
                    skip_count, inserted, total_inserted, druns, dpre, dlist,
                    dfailed, drejected, dloaded, dmoved, insertedBy >>

\* somebody places a processed file back in the input directory
PutBack(f) ==
    /\ dpc = "idle"
    /\ druns < MaxDeclRuns
    /\ f \in DOMAIN dProc
    /\ f \notin DOMAIN dIn
    /\ dIn' = dIn @@ (f :> dProc[f])
    /\ dProc' = Without(dProc, f)
    /\ UNCHANGED << ddb, dtx, aborted, dpc, dqueue, ridx, insert_count,
                    skip_count, inserted, total_inserted, druns, ddrops, dpre, dlist,
                    dfailed, drejected, dloaded, dmoved, insertedBy >>

\* main_loader up to the loop (lines 82-101): connect, glob; without files
\* it closes the connection and returns
DStartRun(order) ==
    /\ dpc = "idle"
    /\ druns < MaxDeclRuns
    /\ druns' = druns + 1
    /\ LET file_list == SelectSeq(order, MatchesPattern)
       IN /\ dqueue' = file_list
          /\ dlist' = [f \in {file_list[i] : i \in 1..Len(file_list)} |-> dIn[f]]
          /\ dpc' = IF file_list = << >> THEN "done" ELSE "loop"
    /\ dtx' = ddb
    /\ dpre' = ddb
    /\ aborted' = FALSE
    /\ total_inserted' = 0
    /\ inserted' = 0
    /\ ridx' = 0
    /\ insert_count' = 0
    /\ skip_count' = 0
    /\ dfailed' = {}
    /\ drejected' = {}
    /\ dloaded' = {}
    /\ dmoved' = {}
    /\ insertedBy' = << >>
    /\ UNCHANGED << ddb, dIn, dProc, ddrops >>

\* get_loader_connection meets OperationalError: sys.exit(1)
DStartExit ==
    /\ dpc = "idle"
    /\ druns < MaxDeclRuns
    /\ druns' = druns + 1
    /\ dpc' = "exited"
    /\ UNCHANGED << ddb, dtx, aborted, dIn, dProc, dqueue, ridx, insert_count,
                    skip_count, inserted, total_inserted, ddrops, dpre, dlist,
                    dfailed, drejected, dloaded, dmoved, insertedBy >>

\* load_file_to_db ends in its outer except: return 0 (lines 76-79)
LoadRaises ==
    /\ dpc' = "loaded"
    /\ inserted' = 0
    /\ dfailed' = dfailed \cup {Head(dqueue)}

\* load_file_to_db is entered: open and json.load (lines 18-32)
OpenFile ==
    /\ dpc = "loop"
    /\ dqueue # << >>
    /\ insert_count' = 0
    /\ skip_count' = 0
    /\ ridx' = 1
    /\ IF dIn[Head(dqueue)] = Malformed
       THEN LoadRaises
       ELSE /\ dpc' = "records"
            /\ UNCHANGED << inserted, dfailed >>
    /\ UNCHANGED << ddb, dtx, aborted, dIn, dProc, dqueue, total_inserted, druns,
                    ddrops, dpre, dlist, drejected, dloaded, dmoved, insertedBy >>

\* the record the loop is at
Rec == dIn[Head(dqueue)][ridx]

\* one pass of the record loop that does not reach the store, or raises
\* before it does (lines 34-58)
RecordSkipOrRaise ==
    /\ dpc = "records"
    /\ ridx <= Len(dIn[Head(dqueue)])
    /\ RecordFate(Rec) # "insert"
    /\ IF RecordFate(Rec) = "raise"
       THEN /\ LoadRaises
            /\ UNCHANGED << skip_count, ridx >>
       ELSE /\ skip_count' = skip_count + 1
            /\ ridx' = ridx + 1
            /\ UNCHANGED << dpc, inserted, dfailed >>
    /\ UNCHANGED << ddb, dtx, aborted, dIn, dProc, dqueue, insert_count,
                    total_inserted, druns, ddrops, dpre, dlist, drejected, dloaded,
                    dmoved, insertedBy >>

\* one pass of the record loop whose insert the store executes (lines 60-71)
RecordInsert ==
    /\ dpc = "records"
    /\ ridx <= Len(dIn[Head(dqueue)])
    /\ RecordFate(Rec) = "insert"
    /\ ~aborted
    /\ dtx' = InsertBoe(dtx, BoeRow(Rec))
    /\ insertedBy' = IF dtx' # dtx THEN With(insertedBy, BoeRow(Rec), Head(dqueue))
                     ELSE insertedBy
    /\ insert_count' = insert_count + 1
    /\ ridx' = ridx + 1
    /\ UNCHANGED << ddb, aborted, dpc, dIn, dProc, dqueue, skip_count, inserted,
                    total_inserted, druns, ddrops, dpre, dlist, dfailed, drejected,
                    dloaded, dmoved >>

\* the store rejects the insert: psycopg2.Error, the transaction is failed
\* from here on (lines 70, 76-79)
RecordInsertRejected ==
    /\ dpc = "records"
    /\ ridx <= Len(dIn[Head(dqueue)])
    /\ RecordFate(Rec) = "insert"
    /\ ~aborted
    /\ aborted' = TRUE
    /\ drejected' = drejected \cup {Head(dqueue)}
    /\ LoadRaises
    /\ UNCHANGED << ddb, dtx, dIn, dProc, dqueue, ridx, insert_count, skip_count,
                    total_inserted, druns, ddrops, dpre, dlist, dloaded, dmoved,
                    insertedBy >>

\* an insert inside a failed transaction: InFailedSqlTransaction
RecordInsertInFailedTx ==
    /\ dpc = "records"
    /\ ridx <= Len(dIn[Head(dqueue)])
    /\ RecordFate(Rec) = "insert"
    /\ aborted
    /\ LoadRaises
    /\ UNCHANGED << ddb, dtx, aborted, dIn, dProc, dqueue, ridx, insert_count,
                    skip_count, total_inserted, druns, ddrops, dpre, dlist,
                    drejected, dloaded, dmoved, insertedBy >>

\* the record loop is over: return insert_count (lines 73-74)
LoadReturns ==
    /\ dpc = "records"
    /\ ridx > Len(dIn[Head(dqueue)])
    /\ dpc' = "loaded"
    /\ inserted' = insert_count
    /\ dloaded' = dloaded \cup {Head(dqueue)}
    /\ UNCHANGED << ddb, dtx, aborted, dIn, dProc, dqueue, ridx, insert_count,
                    skip_count, total_inserted, druns, ddrops, dpre, dlist,
                    dfailed, drejected, dmoved, insertedBy >>

\* total_inserted += inserted; if inserted >= 0: shutil.move (lines 110-116)
MoveFile ==
    /\ dpc = "loaded"
    /\ total_inserted' = total_inserted + inserted
    /\ IF inserted >= 0
       THEN /\ dProc' = With(dProc, Head(dqueue), dIn[Head(dqueue)])
            /\ dIn' = Without(dIn, Head(dqueue))
            /\ dmoved' = dmoved \cup {Head(dqueue)}
       ELSE UNCHANGED << dProc, dIn, dmoved >>
    /\ dqueue' = Tail(dqueue)
    /\ dpc' = "loop"
    /\ UNCHANGED << ddb, dtx, aborted, ridx, insert_count, skip_count, inserted,
                    druns, ddrops, dpre, dlist, dfailed, drejected, dloaded,
                    insertedBy >>

\* shutil.move raises: the except of main_loader rolls back and the run is
\* over (lines 123-131)
MoveFileRaises ==
    /\ dpc = "loaded"
    /\ inserted >= 0
    /\ total_inserted' = total_inserted + inserted
    /\ ddb' = Rollback(ddb, dtx)
    /\ dtx' = ddb'
    /\ aborted' = FALSE
    /\ dpc' = "failed"
    /\ UNCHANGED << dIn, dProc, dqueue, ridx, insert_count, skip_count, inserted,
                    druns, ddrops, dpre, dlist, dfailed, drejected, dloaded, dmoved,
                    insertedBy >>

\* conn.commit() after the loop (lines 118-121); PostgreSQL answers the
\* COMMIT of a failed transaction with ROLLBACK and no error
CommitRun ==
    /\ dpc = "loop"
    /\ dqueue = << >>
    /\ ddb' = IF aborted THEN Rollback(ddb, dtx) ELSE Commit(ddb, dtx)
    /\ dtx' = ddb'
    /\ aborted' = FALSE
    /\ dpc' = "done"
    /\ UNCHANGED << dIn, dProc, dqueue, ridx, insert_count, skip_count, inserted,
                    total_inserted, druns, ddrops, dpre, dlist, dfailed, drejected,
                    dloaded, dmoved, insertedBy >>

\* conn.commit() raises: rollback (lines 123-126)
CommitRunRaises ==
    /\ dpc = "loop"
    /\ dqueue = << >>
    /\ ddb' = Rollback(ddb, dtx)
    /\ dtx' = ddb'
    /\ aborted' = FALSE
    /\ dpc' = "failed"
    /\ UNCHANGED << dIn, dProc, dqueue, ridx, insert_count, skip_count, inserted,
                    total_inserted, druns, ddrops, dpre, dlist, dfailed, drejected,
                    dloaded, dmoved, insertedBy >>

\* the process of the run is gone, and its locals with it
DQuit ==
    /\ dpc \in {"done", "failed", "exited"}
    /\ dpc' = "idle"
    /\ dqueue' = << >>
    /\ ridx' = 0
    /\ insert_count' = 0
    /\ skip_count' = 0
    /\ inserted' = 0
    /\ total_inserted' = 0
    /\ dpre' = << >>
    /\ dlist' = << >>
    /\ dfailed' = {}
    /\ drejected' = {}
    /\ dloaded' = {}
    /\ dmoved' = {}
    /\ insertedBy' = << >>
    /\ UNCHANGED << ddb, dtx, aborted, dIn, dProc, druns, ddrops >>

\* ====================================================== boe_header_loader.py
\* runs of main in one behaviour
MaxFeedRuns == 2
\* header feed files dropped into XML_INPUT_DIR in one behaviour
MaxFeedDrops == 2
\* row elements in one header feed file
MaxFeedRows == 2
\* batch_size, 10000 in the source, scaled to the files of the model
batch_size == 2
\* the number of value children stream_and_load asks of a row
ExpectedValues == 30

\* a row element of the feed: the number of its def:value children and the
\* text of those the loader converts or that tell rows apart (None for
\* xsi:nil="true"): values[0], values[3], values[12], values[18]
FeedRow(n, declaration_date, boe_no, no_of_pkg, gross_weight) ==
    [n |-> n, declaration_date |-> declaration_date, boe_no |-> boe_no,
     no_of_pkg |-> no_of_pkg, gross_weight |-> gross_weight]

\* rows with 30 values or more that the loader can convert
FullRows ==
    { FeedRow(30, "2024-01-05T10:00:00Z", "5", "3", "1.5"),
      FeedRow(30, "05/01/2024", "6", None, None),
      FeedRow(31, "2024-01-05 10:00:00", "7", "2.7", "1.5") }

\* a row with 25 values
ShortRow == FeedRow(25, "2024-01-05T10:00:00Z", "8", "3", "1.5")

\* a row with 30 values whose package count is no number
BadRow == FeedRow(30, "2024-01-05T10:00:00Z", "9", "abc", "1.5")

\* the content of a file that is not well-formed XML
MalformedFeed == << FeedRow(0, "<not XML>", None, None, None) >>

\* the contents a header feed file may have: text that is not XML, or a
\* dataset of up to MaxFeedRows rows
FeedContents ==
    LET g == CHOOSE r \in FullRows : r.boe_no = "5"
        kinds == FullRows \cup {ShortRow, BadRow}
        len1 == IF MaxFeedRows < 1 THEN {} ELSE {<< r >> : r \in kinds}
        len2 == IF MaxFeedRows < 2 THEN {}
                ELSE {<< g, q >> : q \in kinds} \cup {<< q, g >> : q \in kinds}
        len3 == IF MaxFeedRows < 3 THEN {}
                ELSE {<< g, q, r >> : q \in {ShortRow, BadRow}, r \in FullRows}
                     \cup {<< g, q, r >> : q \in FullRows \ {g}, r \in FullRows \ {g}}
    IN {MalformedFeed, << >>} \cup len1 \cup len2 \cup len3

\* the names of the model's files, in the order sorted() gives them
FeedFileOrder == << "H2.XML", "h1.xml", "readme.txt" >>

FeedFileNames == {FeedFileOrder[i] : i \in 1..Len(FeedFileOrder)}

\* f.lower().endswith('.xml')
FeedIsXml(f) == f \in {"H2.XML", "h1.xml"}

\* parse_iso_datetime: fromisoformat with Z replaced, then
\* '%Y-%m-%d %H:%M:%S', then None
parse_iso_datetime(text) ==
    CASE text = None                    -> None
      [] text = ""                      -> None
      [] text = "2024-01-05T10:00:00Z"  -> "2024-01-05 10:00:00+00:00"
      [] text = "2024-01-05 10:00:00"   -> "2024-01-05 10:00:00"
      [] OTHER                          -> None

\* whether float(x) raises ValueError
NotANumber(x) == x \notin {None, "", "3", "2.7", "1.5"}

\* safe_int: int(float(x)) if x and str(x).strip() else 0
safe_int(x) ==
    CASE x = "3"   -> 3
      [] x = "2.7" -> 2
      [] OTHER     -> 0

\* safe_float: float(x) if x and str(x).strip() else None; the float is
\* written as its decimal text
safe_float(x) == IF x \in {None, ""} THEN None ELSE x

\* a row that the loader drops (line 106)
NeverShort(row) == FALSE

IsShort(row) == row.n < ExpectedValues

\* whether building the record of a row raises (lines 110-118)
RecordRaises(row) == NotANumber(row.no_of_pkg) \/ NotANumber(row.gross_weight)

\* the record of a row (lines 110-118), ingested_at being datetime.now()
FeedRecord(row, now) ==
    [declaration_date |-> parse_iso_datetime(row.declaration_date),
     boe_no |-> row.boe_no,
     no_of_pkg |-> safe_int(row.no_of_pkg),
     gross_weight |-> safe_float(row.gross_weight),
     ingested_at |-> now]

\* count_xml_rows of a well-formed file: the elements whose tag ends in row
count_xml_rows(content) == Len(content)

RECURSIVE ExecuteMany(_, _)
\* cur.executemany(INSERT_SQL, batch): INSERT INTO boe_header without a
\* conflict clause, one more copy of each row; the table is a bag of rows
ExecuteMany(tab, batch) ==
    IF batch = << >> THEN tab
    ELSE ExecuteMany(IF Head(batch) \in DOMAIN tab
                     THEN [tab EXCEPT ![Head(batch)] = @ + 1]
                     ELSE tab @@ (Head(batch) :> 1),
                     Tail(batch))

VARIABLES
    fdb,        \* boe_header, committed
    ftx,        \* boe_header as the connection of the running call sees it
    fpc,        \* where main / stream_and_load is
    fIn,        \* XML_INPUT_DIR: file name -> content
    fProc,      \* XML_PROCESSED_DIR: file name -> content
    fErr,       \* XML_ERROR_DIR: file name -> content
    fqueue,     \* files from the current file on
    fidx,       \* the position of the second iterparse
    batch,
    loaded,
    total_rows,
    fret,       \* what stream_and_load returned
    success,
    nfailed,    \* the counter failed of main
    fruns,      \* runs started so far
    fdrops,     \* files dropped so far
    fclock,     \* datetime.now(), one tick a call
    fpre,       \* history: boe_header when the run began
    fcallPre,   \* history: boe_header when the call began
    flist,      \* history: file name -> content, the files of the run
    fresult,    \* history: file name -> how its call ended
    fcause      \* history: why the running call failed, if it did

feedVars == << fdb, ftx, fpc, fIn, fProc, fErr, fqueue, fidx, batch, loaded,
               total_rows, fret, success, nfailed, fruns, fdrops, fclock, fpre,
               fcallPre, flist, fresult, fcause >>

InitFeed ==
    /\ fdb = << >>
    /\ ftx = << >>
    /\ fpc = "idle"
    /\ fIn = << >>
    /\ fProc = << >>
    /\ fErr = << >>
    /\ fqueue = << >>
    /\ fidx = 0
    /\ batch = << >>
    /\ loaded = 0
    /\ total_rows = 0
    /\ fret = "none"
    /\ success = 0
    /\ nfailed = 0
    /\ fruns = 0
    /\ fdrops = 0
    /\ fclock = 0
    /\ fpre = << >>
    /\ fcallPre = << >>
    /\ flist = << >>
    /\ fresult = << >>
    /\ fcause = "none"

\* somebody puts a header feed file into XML_INPUT_DIR
FeedDrop(f, content) ==
    /\ fpc = "idle"
    /\ fdrops < MaxFeedDrops
    /\ f \notin DOMAIN fIn
    /\ fIn' = fIn @@ (f :> content)
    /\ fdrops' = fdrops + 1
    /\ UNCHANGED << fdb, ftx, fpc, fProc, fErr, fqueue, fidx, batch, loaded,
                    total_rows, fret, success, nfailed, fruns, fclock, fpre,
                    fcallPre, flist, fresult, fcause >>

\* somebody places a processed file back in the input directory
FeedPutBack(f) ==
    /\ fpc = "idle"
    /\ fruns < MaxFeedRuns
    /\ f \in DOMAIN fProc
    /\ f \notin DOMAIN fIn
    /\ fIn' = fIn @@ (f :> fProc[f])
    /\ fProc' = Without(fProc, f)
    /\ UNCHANGED << fdb, ftx, fpc, fErr, fqueue, fidx, batch, loaded, total_rows,
                    fret, success, nfailed, fruns, fdrops, fclock, fpre, fcallPre,
                    flist, fresult, fcause >>

\* main up to the loop (lines 150-157): list, filter, sort; without files it
\* returns
FeedStartRun ==
    /\ fpc = "idle"
    /\ fruns < MaxFeedRuns
    /\ fruns' = fruns + 1
    /\ LET files == SelectSeq(FeedFileOrder, LAMBDA f : f \in DOMAIN fIn /\ FeedIsXml(f))
       IN /\ fqueue' = files
          /\ flist' = [f \in {files[i] : i \in 1..Len(files)} |-> fIn[f]]
          /\ fpc' = IF files = << >> THEN "done" ELSE "loop"
    /\ success' = 0
    /\ nfailed' = 0
    /\ fpre' = fdb
    /\ fresult' = << >>
    /\ fcause' = "none"
    /\ fret' = "none"
    /\ UNCHANGED << fdb, ftx, fIn, fProc, fErr, fidx, batch, loaded, total_rows,
                    fdrops, fclock, fcallPre >>

\* stream_and_load is called and count_xml_rows meets text that is not XML:
\* ET.ParseError leaves stream_and_load, which calls it outside its try (line
\* 83), and main, which has no try (lines 159-167)
StreamCountRaises ==
    /\ fpc = "loop"
    /\ fqueue # << >>
    /\ fIn[Head(fqueue)] = MalformedFeed
    /\ fpc' = "crashed"
    /\ fret' = "raised"
    /\ fcause' = "parse"
    /\ fcallPre' = fdb
    /\ fresult' = With(fresult, Head(fqueue), "raised")
    /\ UNCHANGED << fdb, ftx, fIn, fProc, fErr, fqueue, fidx, batch, loaded,
                    total_rows, success, nfailed, fruns, fdrops, fclock, fpre,
                    flist >>

\* stream_and_load finds no row: return False (lines 83-86)
StreamNoRows ==
    /\ fpc = "loop"
    /\ fqueue # << >>
    /\ fIn[Head(fqueue)] # MalformedFeed
    /\ count_xml_rows(fIn[Head(fqueue)]) = 0
    /\ total_rows' = 0
    /\ fpc' = "returned"
    /\ fret' = "False"
    /\ fcause' = "norows"
    /\ fcallPre' = fdb
    /\ fresult' = With(fresult, Head(fqueue), "False")
    /\ UNCHANGED << fdb, ftx, fIn, fProc, fErr, fqueue, fidx, batch, loaded,
                    success, nfailed, fruns, fdrops, fclock, fpre, flist >>

\* stream_and_load counts the rows and connects (lines 83-94)
StreamOpen ==
    /\ fpc = "loop"
    /\ fqueue # << >>
    /\ fIn[Head(fqueue)] # MalformedFeed
    /\ count_xml_rows(fIn[Head(fqueue)]) > 0
    /\ total_rows' = count_xml_rows(fIn[Head(fqueue)])
    /\ ftx' = fdb
    /\ fcallPre' = fdb
    /\ batch' = << >>
    /\ loaded' = 0
    /\ fidx' = 1
    /\ fclock' = fclock + 1
    /\ fcause' = "none"
    /\ fret' = "none"
    /\ fpc' = "rows"
    /\ UNCHANGED << fdb, fIn, fProc, fErr, fqueue, success, nfailed, fruns, fdrops,
                    fpre, flist, fresult >>

\* get_db_connection raises: psycopg2.OperationalError leaves stream_and_load
\* (line 90 is outside the try) and main
StreamConnectRaises ==
    /\ fpc = "loop"
    /\ fqueue # << >>
    /\ fIn[Head(fqueue)] # MalformedFeed
    /\ count_xml_rows(fIn[Head(fqueue)]) > 0
    /\ total_rows' = count_xml_rows(fIn[Head(fqueue)])
    /\ fpc' = "crashed"
    /\ fret' = "raised"
    /\ fcause' = "connect"
    /\ fcallPre' = fdb
    /\ fresult' = With(fresult, Head(fqueue), "raised")
    /\ UNCHANGED << fdb, ftx, fIn, fProc, fErr, fqueue, fidx, batch, loaded,
                    success, nfailed, fruns, fdrops, fclock, fpre, flist >>

\* the except of stream_and_load: rollback, return False, close (lines 139-145)
StreamFails(cause) ==
    /\ fdb' = Rollback(fdb, ftx)
    /\ ftx' = fdb'
    /\ fpc' = "returned"
    /\ fret' = "False"
    /\ fcause' = cause
    /\ fresult' = With(fresult, Head(fqueue), "False")
    /\ UNCHANGED << fIn, fProc, fErr, fqueue, fidx, batch, loaded, total_rows,
                    success, nfailed, fruns, fdrops, fclock, fpre, fcallPre,
                    flist >>

\* the row the second iterparse is at
FRow == fIn[Head(fqueue)][fidx]

\* a row with fewer than 30 values: continue (lines 98-108)
RowShort ==
    /\ fpc = "rows"
    /\ fidx <= Len(fIn[Head(fqueue)])
    /\ IsShort(FRow)
    /\ fidx' = fidx + 1
    /\ UNCHANGED << fdb, ftx, fpc, fIn, fProc, fErr, fqueue, batch, loaded,
                    total_rows, fret, success, nfailed, fruns, fdrops, fclock,
                    fpre, fcallPre, flist, fresult, fcause >>

\* building the record of a row raises ValueError (lines 110-118, 139-142)
RowRaises ==
    /\ fpc = "rows"
    /\ fidx <= Len(fIn[Head(fqueue)])
    /\ ~IsShort(FRow)
    /\ RecordRaises(FRow)
    /\ StreamFails("convert")

\* a row is added to the batch, and a full batch is written (lines 110-128)
RowAppend ==
    /\ fpc = "rows"
    /\ fidx <= Len(fIn[Head(fqueue)])
    /\ ~IsShort(FRow)
    /\ ~RecordRaises(FRow)
    /\ LET b == Append(batch, FeedRecord(FRow, fclock))
       IN IF Len(b) >= batch_size
          THEN /\ ftx' = ExecuteMany(ftx, b)
               /\ loaded' = loaded + Len(b)
               /\ batch' = << >>
          ELSE /\ batch' = b
               /\ UNCHANGED << ftx, loaded >>
    /\ fidx' = fidx + 1
    /\ UNCHANGED << fdb, fpc, fIn, fProc, fErr, fqueue, total_rows, fret, success,
                    nfailed, fruns, fdrops, fclock, fpre, fcallPre, flist, fresult,
                    fcause >>

\* the executemany of a full batch is rejected (lines 122, 139-142)
RowBatchRejected ==
    /\ fpc = "rows"
    /\ fidx <= Len(fIn[Head(fqueue)])
    /\ ~IsShort(FRow)
    /\ ~RecordRaises(FRow)
    /\ Len(batch) + 1 >= batch_size
    /\ StreamFails("store")

\* the final batch, the commit and return True (lines 130-137, 143-145)
StreamFinish ==
    /\ fpc = "rows"
    /\ fidx > Len(fIn[Head(fqueue)])
    /\ loaded' = loaded + Len(batch)
    /\ fdb' = Commit(fdb, ExecuteMany(ftx, batch))
    /\ ftx' = fdb'
    /\ fpc' = "returned"
    /\ fret' = "True"
    /\ fresult' = With(fresult, Head(fqueue), "True")
    /\ UNCHANGED << fIn, fProc, fErr, fqueue, fidx, batch, total_rows, success,
                    nfailed, fruns, fdrops, fclock, fpre, fcallPre, flist, fcause >>

\* the final executemany or the commit is rejected (lines 130-135, 139-142)
StreamFinishRejected ==
    /\ fpc = "rows"
    /\ fidx > Len(fIn[Head(fqueue)])
    /\ StreamFails("store")

\* stream_and_load returned True: move to XML_PROCESSED_DIR (lines 162-164)
MoveToProcessed ==
    /\ fpc = "returned"
    /\ fret = "True"
    /\ fProc' = With(fProc, Head(fqueue), fIn[Head(fqueue)])
    /\ fIn' = Without(fIn, Head(fqueue))
    /\ success' = success + 1
    /\ fqueue' = Tail(fqueue)
    /\ fpc' = "loop"
    /\ UNCHANGED << fdb, ftx, fErr, fidx, batch, loaded, total_rows, fret, nfailed,
                    fruns, fdrops, fclock, fpre, fcallPre, flist, fresult, fcause >>

\* stream_and_load returned False: move to XML_ERROR_DIR (lines 165-167)
MoveToError ==
    /\ fpc = "returned"
    /\ fret = "False"
    /\ fErr' = With(fErr, Head(fqueue), fIn[Head(fqueue)])
    /\ fIn' = Without(fIn, Head(fqueue))
    /\ nfailed' = nfailed + 1
    /\ fqueue' = Tail(fqueue)
    /\ fpc' = "loop"
    /\ UNCHANGED << fdb, ftx, fProc, fidx, batch, loaded, total_rows, fret,
                    success, fruns, fdrops, fclock, fpre, fcallPre, flist, fresult,
                    fcause >>

\* shutil.move raises: the exception leaves main (lines 162-167)
FeedMoveRaises ==
    /\ fpc = "returned"
    /\ fpc' = "crashed"
    /\ UNCHANGED << fdb, ftx, fIn, fProc, fErr, fqueue, fidx, batch, loaded,
                    total_rows, fret, success, nfailed, fruns, fdrops, fclock,
                    fpre, fcallPre, flist, fresult, fcause >>

\* the loop is over: the summary is printed (line 170)
FeedEndRun ==
    /\ fpc = "loop"
    /\ fqueue = << >>
    /\ fpc' = "done"
    /\ UNCHANGED << fdb, ftx, fIn, fProc, fErr, fqueue, fidx, batch, loaded,
                    total_rows, fret, success, nfailed, fruns, fdrops, fclock,
                    fpre, fcallPre, flist, fresult, fcause >>

\* the process of the run is gone, and its locals with it
FeedQuit ==
    /\ fpc \in {"done", "crashed"}
    /\ fpc' = "idle"
    /\ fqueue' = << >>
    /\ ftx' = fdb
    /\ fidx' = 0
    /\ batch' = << >>
    /\ loaded' = 0
    /\ total_rows' = 0
    /\ fret' = "none"
    /\ success' = 0
    /\ nfailed' = 0
    /\ fpre' = << >>
    /\ fcallPre' = << >>
    /\ flist' = << >>
    /\ fresult' = << >>
    /\ fcause' = "none"
    /\ UNCHANGED << fdb, fIn, fProc, fErr, fruns, fdrops, fclock >>

\* ================================================ two concurrent ingestions
(***************************************************************************)
(* Two processes run ingest_manifest_data at the same time against the     *)
(* same PostgreSQL store, each in a transaction of its own (autocommit is  *)
(* off, db_connect.py line 53) at the default isolation level READ         *)
(* COMMITTED. A statement sees what was committed when it started and the  *)
(* writes of its own transaction. A row written by an open transaction is  *)
(* locked until that transaction ends: an UPDATE that meets such a row     *)
(* waits and then re-checks its WHERE clause on the row as committed,      *)
(* without seeing rows that were not in its snapshot; an INSERT ... ON     *)
(* CONFLICT waits for the open transaction that holds the conflicting key. *)
(***************************************************************************)
\* calls of ingest_manifest_data by the two writers in one behaviour
MaxRaceCalls == 3

Writers == {1, 2}

Other(w) == IF w = 1 THEN 2 ELSE 1

\* the documents of the two writers: the home manifest of CRN C1 with BL B1
\* and two amendments of that BL with different version numbers
RaceDocs ==
    { RawDoc("C1", "HMNDOC", "x", << Block("B1", "1", "A") >>),
      RawDoc("C1", "AMNDOC", "x", << Block("B1", "2", "A") >>),
      RawDoc("C1", "ADLDOC", "x", << Block("B1", "3", "A") >>) }

VARIABLES
    rhdr,     \* manifest_header as committed
    rbl,      \* manifest_bl_details: committed rows and the rows of open
              \* transactions; by = the writer whose uncommitted insert the
              \* row is (0: committed), clr = the writer whose uncommitted
              \* UPDATE has set latest_bl to FALSE (0: nobody)
    rcont,    \* manifest_container_details as committed
    rveh,     \* manifest_vehicle_details as committed
    hlock,    \* crn -> the writer that holds the lock of the header row (0: free)
    wpc,      \* writer -> where its call of ingest_manifest_data is
    wdoc,     \* writer -> the document of its call
    wnow,     \* writer -> CURRENT_TIMESTAMP of its transaction
    widx,     \* writer -> the index of its BL loop
    wkeys,    \* writer -> bls_processed_keys
    wsnap,    \* writer -> the (bl_number, bl_version_no) its running UPDATE matched
    whdr,     \* writer -> manifest_header as its transaction sees it
    wcont,    \* writer -> manifest_container_details as its transaction sees it
    wveh,     \* writer -> manifest_vehicle_details as its transaction sees it
    rcalls,   \* calls begun so far
    wover,    \* history: writer -> the transactions (by their time) that were
              \* open together with its running one
    rlast     \* history: writer -> its last committed call

raceVars == << rhdr, rbl, rcont, rveh, hlock, wpc, wdoc, wnow, widx, wkeys, wsnap,
               whdr, wcont, wveh, rcalls, wover, rlast >>

NoCall == [doc |-> NoDoc, now |-> 0, over |-> {}]

InitRace ==
    /\ rhdr = << >>
    /\ rbl = {}
    /\ rcont = << >>
    /\ rveh = << >>
    /\ hlock = [c \in CRNs |-> 0]
    /\ wpc = [w \in Writers |-> "idle"]
    /\ wdoc = [w \in Writers |-> NoDoc]
    /\ wnow = [w \in Writers |-> 0]
    /\ widx = [w \in Writers |-> 0]
    /\ wkeys = [w \in Writers |-> << >>]
    /\ wsnap = [w \in Writers |-> {}]
    /\ whdr = [w \in Writers |-> << >>]
    /\ wcont = [w \in Writers |-> << >>]
    /\ wveh = [w \in Writers |-> << >>]
    /\ rcalls = 0
    /\ wover = [w \in Writers |-> {}]
    /\ rlast = [w \in Writers |-> NoCall]

\* parsed_data of the call of a writer
WParsed(w) == parse_manifest_xml(wdoc[w])

\* the block the BL loop of a writer is at
WBlock(w) == WParsed(w).bl_list[widx[w]]

\* the call of the writer is under way
Active(w) == wpc[w] # "idle"

\* manifest_bl_details as a statement of the writer sees it: the committed
\* rows and its own inserts, with its own uncommitted updates
BlView(w) ==
    { [crn |-> r.crn, bl_number |-> r.bl_number, bl_version_no |-> r.bl_version_no,
       consignee_name |-> r.consignee_name, latest_bl |-> r.latest_bl /\ r.clr # w]
      : r \in {q \in rbl : q.by \in {0, w}} }

\* a store in which an upsert takes no row lock
HeaderNeverLocked(w, crn) == FALSE

\* HEADER_UPSERT_SQL has to wait: ON CONFLICT (crn) DO UPDATE locks the row of
\* the CRN (and an insert of a new CRN holds its key) until the transaction
\* that wrote it ends
HeaderLocked(w, crn) == hlock[crn] \notin {0, w}

\* the state the BL loop of a writer goes to after the block it is at
AfterBlock(w) == IF widx[w] < Len(WParsed(w).bl_list) THEN "bl" ELSE "delete"

\* the rows of the table after the transaction of the writer has ended
EndTransaction(w, committed) ==
    IF committed
    THEN { IF r.by = w THEN [r EXCEPT !.by = 0]
           ELSE IF r.clr = w THEN [r EXCEPT !.clr = 0, !.latest_bl = FALSE]
           ELSE r : r \in rbl }
    ELSE { [r EXCEPT !.clr = IF @ = w THEN 0 ELSE @] : r \in {q \in rbl : q.by # w} }

\* the call of a writer is over: the locals are gone, the locks are released
CallEnds(w) ==
    /\ wpc' = [wpc EXCEPT ![w] = "idle"]
    /\ wdoc' = [wdoc EXCEPT ![w] = NoDoc]
    /\ widx' = [widx EXCEPT ![w] = 0]
    /\ wkeys' = [wkeys EXCEPT ![w] = << >>]
    /\ wsnap' = [wsnap EXCEPT ![w] = {}]
    /\ whdr' = [whdr EXCEPT ![w] = << >>]
    /\ wcont' = [wcont EXCEPT ![w] = << >>]
    /\ wveh' = [wveh EXCEPT ![w] = << >>]
    /\ wover' = [wover EXCEPT ![w] = {}]
    /\ hlock' = [c \in CRNs |-> IF hlock[c] = w THEN 0 ELSE hlock[c]]

\* a writer calls ingest_manifest_data: connection and parse (lines 332-350)
RBegin(w, doc) ==
    /\ wpc[w] = "idle"
    /\ rcalls < MaxRaceCalls
    /\ rcalls' = rcalls + 1
    /\ wpc' = [wpc EXCEPT ![w] = "header"]
    /\ wdoc' = [wdoc EXCEPT ![w] = doc]
    /\ wnow' = [wnow EXCEPT ![w] = rcalls + 1]
    /\ wover' = [v \in Writers |->
                    IF v = w THEN (IF Active(Other(w)) THEN {wnow[Other(w)]} ELSE {})
                    ELSE IF Active(v) THEN wover[v] \cup {rcalls + 1}
                    ELSE wover[v]]
    /\ UNCHANGED << rhdr, rbl, rcont, rveh, hlock, widx, wkeys, wsnap, whdr,
                    wcont, wveh, rlast >>

\* PHASE 1 (lines 352-380): the header upserts, once the row of the CRN is
\* not locked by the other transaction; they see the row as committed
RHeader(w) ==
    /\ wpc[w] = "header"
    /\ ~HeaderLocked(w, WParsed(w).header["crn"])
    /\ hlock' = [hlock EXCEPT ![WParsed(w).header["crn"]] = w]
    /\ whdr' = [whdr EXCEPT ![w] =
                   HeaderPhase([EmptyStore EXCEPT !.hdr = rhdr], WParsed(w).header,
                               wnow[w]).hdr]
    /\ widx' = [widx EXCEPT ![w] = 1]
    /\ wpc' = [wpc EXCEPT ![w] = IF WParsed(w).bl_list = << >> THEN "delete" ELSE "bl"]
    /\ UNCHANGED << rhdr, rbl, rcont, rveh, wdoc, wnow, wkeys, wsnap, wcont,
                    wveh, rcalls, wover, rlast >>

\* the HMNDOC branch of the BL loop: CHECK_BL_EXISTS_SQL (lines 398-400)
RBlCheck(w) ==
    /\ wpc[w] = "bl"
    /\ WParsed(w).header["document_type"] = "HMNDOC"
    /\ IF CHECK_BL_EXISTS_SQL(BlView(w), WBlock(w).bl_number, WParsed(w).header["crn"])
       THEN /\ wpc' = [wpc EXCEPT ![w] = AfterBlock(w)]
            /\ widx' = [widx EXCEPT ![w] = @ + 1]
       ELSE /\ wpc' = [wpc EXCEPT ![w] = "insert"]
            /\ UNCHANGED widx
    /\ UNCHANGED << rhdr, rbl, rcont, rveh, hlock, wdoc, wnow, wkeys, wsnap,
                    whdr, wcont, wveh, rcalls, wover, rlast >>

\* the AMNDOC/ADLDOC branch: UPDATE_PREV_BL_VERSION_SQL starts and matches
\* the latest rows of (bl_number, crn) in its snapshot (lines 405-406)
RBlClearStart(w) ==
    /\ wpc[w] = "bl"
    /\ WParsed(w).header["document_type"] \in {"AMNDOC", "ADLDOC"}
    /\ wsnap' = [wsnap EXCEPT ![w] =
                    { << r.bl_number, r.bl_version_no >> :
                      r \in {q \in BlView(w) : /\ q.bl_number = WBlock(w).bl_number
                                               /\ q.crn = WParsed(w).header["crn"]
                                               /\ q.latest_bl} }]
    /\ wpc' = [wpc EXCEPT ![w] = "clearing"]
    /\ UNCHANGED << rhdr, rbl, rcont, rveh, hlock, wdoc, wnow, widx, wkeys,
                    whdr, wcont, wveh, rcalls, wover, rlast >>

\* the UPDATE ends once no matched row is locked by the other transaction:
\* it clears the matched rows that are still latest_bl = TRUE as committed
RBlClearFinish(w) ==
    /\ wpc[w] = "clearing"
    /\ \A r \in rbl : << r.bl_number, r.bl_version_no >> \in wsnap[w] => r.clr \in {0, w}
    /\ rbl' = { IF << r.bl_number, r.bl_version_no >> \in wsnap[w] /\ r.latest_bl
                   /\ r.by \in {0, w}
                THEN (IF r.by = w THEN [r EXCEPT !.latest_bl = FALSE]
                      ELSE [r EXCEPT !.clr = w])
                ELSE r : r \in rbl }
    /\ wsnap' = [wsnap EXCEPT ![w] = {}]
    /\ wpc' = [wpc EXCEPT ![w] = "insert"]
    /\ UNCHANGED << rhdr, rcont, rveh, hlock, wdoc, wnow, widx, wkeys, whdr,
                    wcont, wveh, rcalls, wover, rlast >>

\* INSERT_NEW_BL_SQL (lines 401-402, 407-408), once no open transaction of
\* the other writer holds the key (bl_number, bl_version_no); bl_inserted is
\* set whether or not a row went in
RBlInsert(w) ==
    /\ wpc[w] = "insert"
    /\ ~\E r \in rbl : /\ r.bl_number = WBlock(w).bl_number
                       /\ r.bl_version_no = WBlock(w).bl_version_no
                       /\ r.by = Other(w)
    /\ rbl' = IF \E r \in rbl : /\ r.bl_number = WBlock(w).bl_number
                                /\ r.bl_version_no = WBlock(w).bl_version_no
              THEN rbl
              ELSE rbl \cup {[crn |-> WBlock(w).crn, bl_number |-> WBlock(w).bl_number,
                              bl_version_no |-> WBlock(w).bl_version_no,
                              consignee_name |-> WBlock(w).consignee_name,
                              latest_bl |-> TRUE, by |-> w, clr |-> 0]}
    /\ wkeys' = [wkeys EXCEPT ![w] =
                    Append(@, << WBlock(w).bl_number, WBlock(w).bl_version_no >>)]
    /\ wpc' = [wpc EXCEPT ![w] = AfterBlock(w)]
    /\ widx' = [widx EXCEPT ![w] = @ + 1]
    /\ UNCHANGED << rhdr, rcont, rveh, hlock, wdoc, wnow, wsnap, whdr, wcont,
                    wveh, rcalls, wover, rlast >>

\* PHASE 3 (lines 413-416)
RDelete(w) ==
    /\ wpc[w] = "delete"
    /\ wcont' = [wcont EXCEPT ![w] = DeleteAll(rcont, wkeys[w])]
    /\ wveh' = [wveh EXCEPT ![w] = DeleteAll(rveh, wkeys[w])]
    /\ wpc' = [wpc EXCEPT ![w] = "containers"]
    /\ UNCHANGED << rhdr, rbl, rcont, rveh, hlock, wdoc, wnow, widx, wkeys,
                    wsnap, whdr, rcalls, wover, rlast >>

\* PHASE 4 (lines 418-432)
RContainers(w) ==
    /\ wpc[w] = "containers"
    /\ wcont' = [wcont EXCEPT ![w] =
                    InsertAll(@, ToInsert(WParsed(w).container_list, wkeys[w]))]
    /\ wpc' = [wpc EXCEPT ![w] = "vehicles"]
    /\ UNCHANGED << rhdr, rbl, rcont, rveh, hlock, wdoc, wnow, widx, wkeys,
                    wsnap, whdr, wveh, rcalls, wover, rlast >>

\* PHASE 5 (lines 434-446)
RVehicles(w) ==
    /\ wpc[w] = "vehicles"
    /\ wveh' = [wveh EXCEPT ![w] =
                   InsertAll(@, ToInsert(WParsed(w).vehicle_list, wkeys[w]))]
    /\ wpc' = [wpc EXCEPT ![w] = "commit"]
    /\ UNCHANGED << rhdr, rbl, rcont, rveh, hlock, wdoc, wnow, widx, wkeys,
                    wsnap, whdr, wcont, rcalls, wover, rlast >>

\* conn.commit() and return True (lines 448-450)
RCommit(w) ==
    /\ wpc[w] = "commit"
    /\ rhdr' = [c \in DOMAIN rhdr \cup {WParsed(w).header["crn"]} |->
                   IF c = WParsed(w).header["crn"] THEN whdr[w][c] ELSE rhdr[c]]
    /\ rbl' = EndTransaction(w, TRUE)
    /\ rcont' = wcont[w]
    /\ rveh' = wveh[w]
    /\ rlast' = [rlast EXCEPT ![w] = [doc |-> wdoc[w], now |-> wnow[w], over |-> wover[w]]]
    /\ CallEnds(w)
    /\ UNCHANGED << wnow, rcalls >>

\* a statement or the commit raises psycopg2.Error: rollback and return
\* False (lines 452-455)
RFail(w) ==
    /\ wpc[w] \in {"header", "bl", "clearing", "insert", "delete", "containers",
                   "vehicles", "commit"}
    /\ rbl' = EndTransaction(w, FALSE)
    /\ CallEnds(w)
    /\ UNCHANGED << rhdr, rcont, rveh, wnow, rcalls, rlast >>

\* ---------------------------------------------------------- specifications
\* a direct call of ingest_manifest_data
DirectCall(doc) ==
    /\ clock < MaxIngest
    /\ IngestCall(doc)
    /\ UNCHANGED << xmlVars, declVars, feedVars, raceVars >>

\* a direct call that ends in sys.exit(1)
DirectCallExit(doc) ==
    /\ clock < MaxIngest
    /\ IngestCallExit(doc)
    /\ UNCHANGED << xmlVars, declVars, feedVars, raceVars >>

\* the caller of a direct call takes the result (or, after sys.exit, the
\* loader is started anew)
CallerResume ==
    /\ ipc \in {"returned", "exited"}
    /\ Resume
    /\ UNCHANGED << xmlVars, declVars, feedVars, raceVars >>

vars == << ingestVars, xmlVars, declVars, feedVars, raceVars >>

Init == InitIngest /\ InitXml /\ InitDecl /\ InitFeed /\ InitRace

\* ingest_manifest_data called file after file by a single writer
NextIngest ==
    \/ \E doc \in Docs : DirectCall(doc)
    \/ \E doc \in Docs : DirectCallExit(doc)
    \/ ParseStep /\ UNCHANGED << xmlVars, declVars, feedVars, raceVars >>
    \/ HeaderStep /\ UNCHANGED << xmlVars, declVars, feedVars, raceVars >>
    \/ BlStep /\ UNCHANGED << xmlVars, declVars, feedVars, raceVars >>
    \/ DeleteStep /\ UNCHANGED << xmlVars, declVars, feedVars, raceVars >>
    \/ ContainerStep /\ UNCHANGED << xmlVars, declVars, feedVars, raceVars >>
    \/ VehicleStep /\ UNCHANGED << xmlVars, declVars, feedVars, raceVars >>
    \/ CommitStep /\ UNCHANGED << xmlVars, declVars, feedVars, raceVars >>
    \/ DbError /\ UNCHANGED << xmlVars, declVars, feedVars, raceVars >>
    \/ CallerResume

SpecIngest == Init /\ [][NextIngest]_vars

\* runs of process_xml_files over the files dropped into XML_INPUT_DIR
NextXml ==
    \/ \E f \in FileNames : \E doc \in XmlDocs : DropFile(f, doc) /\ UNCHANGED << declVars, feedVars, raceVars >>
    \/ \E f \in FileNames : RemoveFile(f) /\ UNCHANGED << declVars, feedVars, raceVars >>
    \/ \E order \in Orders(DOMAIN inDir) : StartRun(order) /\ UNCHANGED << declVars, feedVars, raceVars >>
    \/ CallNext /\ UNCHANGED << declVars, feedVars, raceVars >>
    \/ CallNextExit /\ UNCHANGED << declVars, feedVars, raceVars >>
    \/ SkipMissing /\ UNCHANGED << declVars, feedVars, raceVars >>
    \/ ParseStep /\ UNCHANGED << xmlVars, declVars, feedVars, raceVars >>
    \/ HeaderStep /\ UNCHANGED << xmlVars, declVars, feedVars, raceVars >>
    \/ BlStep /\ UNCHANGED << xmlVars, declVars, feedVars, raceVars >>
    \/ DeleteStep /\ UNCHANGED << xmlVars, declVars, feedVars, raceVars >>
    \/ ContainerStep /\ UNCHANGED << xmlVars, declVars, feedVars, raceVars >>
    \/ VehicleStep /\ UNCHANGED << xmlVars, declVars, feedVars, raceVars >>
    \/ CommitStep /\ UNCHANGED << xmlVars, declVars, feedVars, raceVars >>
    \/ DbError /\ UNCHANGED << xmlVars, declVars, feedVars, raceVars >>
    \/ TakeTrueMove /\ UNCHANGED << declVars, feedVars, raceVars >>
    \/ TakeTrueMoveFails /\ UNCHANGED << declVars, feedVars, raceVars >>
    \/ TakeFalse /\ UNCHANGED << declVars, feedVars, raceVars >>
    \/ EndRun /\ UNCHANGED << declVars, feedVars, raceVars >>
    \/ Quit /\ UNCHANGED << declVars, feedVars, raceVars >>

SpecXml == Init /\ [][NextXml]_vars

\* runs of main_loader over the files dropped into JSON_DIR_PATH
NextDecl ==
    \/ \E f \in DeclFileNames : \E content \in DeclContents :
          DeclDrop(f, content) /\ UNCHANGED << ingestVars, xmlVars, feedVars, raceVars >>
    \/ \E f \in DeclFileNames : PutBack(f) /\ UNCHANGED << ingestVars, xmlVars, feedVars, raceVars >>
    \/ \E order \in Orders(DOMAIN dIn) : DStartRun(order) /\ UNCHANGED << ingestVars, xmlVars, feedVars, raceVars >>
    \/ DStartExit /\ UNCHANGED << ingestVars, xmlVars, feedVars, raceVars >>
    \/ OpenFile /\ UNCHANGED << ingestVars, xmlVars, feedVars, raceVars >>
    \/ RecordSkipOrRaise /\ UNCHANGED << ingestVars, xmlVars, feedVars, raceVars >>
    \/ RecordInsert /\ UNCHANGED << ingestVars, xmlVars, feedVars, raceVars >>
    \/ RecordInsertRejected /\ UNCHANGED << ingestVars, xmlVars, feedVars, raceVars >>
    \/ RecordInsertInFailedTx /\ UNCHANGED << ingestVars, xmlVars, feedVars, raceVars >>
    \/ LoadReturns /\ UNCHANGED << ingestVars, xmlVars, feedVars, raceVars >>
    \/ MoveFile /\ UNCHANGED << ingestVars, xmlVars, feedVars, raceVars >>
    \/ MoveFileRaises /\ UNCHANGED << ingestVars, xmlVars, feedVars, raceVars >>
    \/ CommitRun /\ UNCHANGED << ingestVars, xmlVars, feedVars, raceVars >>
    \/ CommitRunRaises /\ UNCHANGED << ingestVars, xmlVars, feedVars, raceVars >>
    \/ DQuit /\ UNCHANGED << ingestVars, xmlVars, feedVars, raceVars >>

SpecDecl == Init /\ [][NextDecl]_vars

\* runs of main of the header feed loader over the files dropped into its
\* input directory
NextFeed ==
    \/ \E f \in FeedFileNames : \E content \in FeedContents :
          FeedDrop(f, content) /\ UNCHANGED << ingestVars, xmlVars, declVars, raceVars >>
    \/ \E f \in FeedFileNames : FeedPutBack(f) /\ UNCHANGED << ingestVars, xmlVars, declVars, raceVars >>
    \/ FeedStartRun /\ UNCHANGED << ingestVars, xmlVars, declVars, raceVars >>
    \/ StreamCountRaises /\ UNCHANGED << ingestVars, xmlVars, declVars, raceVars >>
    \/ StreamNoRows /\ UNCHANGED << ingestVars, xmlVars, declVars, raceVars >>
    \/ StreamOpen /\ UNCHANGED << ingestVars, xmlVars, declVars, raceVars >>
    \/ StreamConnectRaises /\ UNCHANGED << ingestVars, xmlVars, declVars, raceVars >>
    \/ RowShort /\ UNCHANGED << ingestVars, xmlVars, declVars, raceVars >>
    \/ RowRaises /\ UNCHANGED << ingestVars, xmlVars, declVars, raceVars >>
    \/ RowAppend /\ UNCHANGED << ingestVars, xmlVars, declVars, raceVars >>
    \/ RowBatchRejected /\ UNCHANGED << ingestVars, xmlVars, declVars, raceVars >>
    \/ StreamFinish /\ UNCHANGED << ingestVars, xmlVars, declVars, raceVars >>
    \/ StreamFinishRejected /\ UNCHANGED << ingestVars, xmlVars, declVars, raceVars >>
    \/ MoveToProcessed /\ UNCHANGED << ingestVars, xmlVars, declVars, raceVars >>
    \/ MoveToError /\ UNCHANGED << ingestVars, xmlVars, declVars, raceVars >>
    \/ FeedMoveRaises /\ UNCHANGED << ingestVars, xmlVars, declVars, raceVars >>
    \/ FeedEndRun /\ UNCHANGED << ingestVars, xmlVars, declVars, raceVars >>
    \/ FeedQuit /\ UNCHANGED << ingestVars, xmlVars, declVars, raceVars >>

SpecFeed == Init /\ [][NextFeed]_vars

\* two writers calling ingest_manifest_data at the same time
NextRace ==
    \/ \E w \in Writers : \E doc \in RaceDocs : RBegin(w, doc) /\ UNCHANGED << ingestVars, xmlVars, declVars, feedVars >>
    \/ \E w \in Writers : RHeader(w) /\ UNCHANGED << ingestVars, xmlVars, declVars, feedVars >>
    \/ \E w \in Writers : RBlCheck(w) /\ UNCHANGED << ingestVars, xmlVars, declVars, feedVars >>
    \/ \E w \in Writers : RBlClearStart(w) /\ UNCHANGED << ingestVars, xmlVars, declVars, feedVars >>
    \/ \E w \in Writers : RBlClearFinish(w) /\ UNCHANGED << ingestVars, xmlVars, declVars, feedVars >>
    \/ \E w \in Writers : RBlInsert(w) /\ UNCHANGED << ingestVars, xmlVars, declVars, feedVars >>
    \/ \E w \in Writers : RDelete(w) /\ UNCHANGED << ingestVars, xmlVars, declVars, feedVars >>
    \/ \E w \in Writers : RContainers(w) /\ UNCHANGED << ingestVars, xmlVars, declVars, feedVars >>
    \/ \E w \in Writers : RVehicles(w) /\ UNCHANGED << ingestVars, xmlVars, declVars, feedVars >>
    \/ \E w \in Writers : RCommit(w) /\ UNCHANGED << ingestVars, xmlVars, declVars, feedVars >>
    \/ \E w \in Writers : RFail(w) /\ UNCHANGED << ingestVars, xmlVars, declVars, feedVars >>

SpecRace == Init /\ [][NextRace]_vars

\* ================================================================ claims
RECURSIVE ChildCount(_, _, _)
\* the rows of a child table under one (bl_number, bl_version_no), copies
\* counted
ChildCount(bag, bl_number, bl_version_no) ==
    IF DOMAIN bag = {} THEN 0
    ELSE LET r == CHOOSE q \in DOMAIN bag : TRUE
             rest == [q \in DOMAIN bag \ {r} |-> bag[q]]
         IN (IF r.bl_number = bl_number /\ r.bl_version_no = bl_version_no THEN bag[r] ELSE 0)
            + ChildCount(rest, bl_number, bl_version_no)

RECURSIVE BlLoop(_, _, _, _, _)
\* the whole of PHASE 2 over a bl_list
BlLoop(bl, ks, list, doc_type, crn) ==
    IF list = << >> THEN [bl |-> bl, keys |-> ks]
    ELSE LET r == BlPass(bl, Head(list), doc_type, crn)
         IN BlLoop(r.bl,
                   IF r.bl_inserted
                   THEN Append(ks, << Head(list).bl_number, Head(list).bl_version_no >>)
                   ELSE ks,
                   Tail(list), doc_type, crn)

\* every write of one call of ingest_manifest_data, applied to a store
IngestOutcome(store, parsed, now) ==
    LET s1 == HeaderPhase(store, parsed.header, now)
        p2 == BlLoop(s1.bl, << >>, parsed.bl_list, parsed.header["document_type"],
                     parsed.header["crn"])
    IN [hdr |-> s1.hdr,
        bl |-> p2.bl,
        cont |-> InsertAll(DeleteAll(s1.cont, p2.keys), ToInsert(parsed.container_list, p2.keys)),
        veh |-> InsertAll(DeleteAll(s1.veh, p2.keys), ToInsert(parsed.vehicle_list, p2.keys))]

BlRows(store, crn, bl_number) == {r \in store.bl : r.crn = crn /\ r.bl_number = bl_number}

\* C1 (as the spec states it): in the committed store every (BL number, CRN)
\* with a stored row has exactly one row with latest_bl = TRUE, and that row
\* is the version of the most recent committed ingestion that wrote this BL.
C1_SingleLatest ==
    \A crn \in CRNs, b \in BLNumbers :
        BlRows(db, crn, b) # {} =>
            \E r \in BlRows(db, crn, b) :
                /\ r.latest_bl
                /\ \A q \in BlRows(db, crn, b) : q.latest_bl => q = r
                /\ << crn, b >> \in DOMAIN written => r.bl_version_no = written[<< crn, b >>]

\* whether the document of the call supplies a value for header column c
Supplies(doc, c) ==
    IF c = "notify_parties" THEN doc.notify # << >>
    ELSE doc.hdr[c] # Absent /\ doc.hdr[c] # ""

\* C2 (as the spec states it): when a call on a document for a CRN that has a
\* header row returns True, every column the document does not supply keeps
\* the value the row held, and every column it supplies holds the document's
\* value.
C2_MergeNeverErases ==
    (ipc = "returned" /\ ret = "True" /\ Parsed.header["crn"] \in DOMAIN pre.hdr) =>
        LET crn == Parsed.header["crn"]
        IN \A c \in HeaderColSet \ {"crn"} :
              /\ (pre.hdr[crn][c] \notin {None, ""} /\ ~Supplies(cur, c))
                    => db.hdr[crn][c] = pre.hdr[crn][c]
              /\ Supplies(cur, c) => db.hdr[crn][c] = Parsed.header[c]

\* C5: when the file ingested last with success is ingested again with
\* success, every (BL number, BL version) of the file has as many container
\* rows and as many vehicle rows as before the second ingestion.
C5_ChildReplaceOnReprocess ==
    (ipc = "returned" /\ ret = "True" /\ cur = lastOk) =>
        \A i \in 1..Len(Parsed.bl_list) :
            LET b == Parsed.bl_list[i]
            IN /\ ChildCount(db.cont, b.bl_number, b.bl_version_no)
                    = ChildCount(pre.cont, b.bl_number, b.bl_version_no)
               /\ ChildCount(db.veh, b.bl_number, b.bl_version_no)
                    = ChildCount(pre.veh, b.bl_number, b.bl_version_no)

\* C5 witness: an amendment with two containers and a vehicle under (B1, 1)
\* has been ingested a second time, its children deleted and inserted again.
C5_Witness ==
    /\ ipc = "returned" /\ ret = "True" /\ cur = lastOk
    /\ Parsed.header["document_type"] = "AMNDOC"
    /\ ChildCount(db.cont, "B1", 1) = 2
    /\ ChildCount(db.veh, "B1", 1) = 1

C10_FailedMovedToErrorDir ==
    xpc = "done" => \A f \in failed : f \notin DOMAIN inDir /\ f \in errDir

\* C10 (amended): at the end of a run every file whose ingestion returned
\* failure is still in the input directory, and no file is in an error
\* directory.
C10_FailedStayInInputDir ==
    xpc = "done" => (\A f \in failed : f \in DOMAIN inDir) /\ errDir = {}

\* C10 witness: a run has ended with a failed file.
C10_Witness == xpc = "done" /\ failed # {} /\ queue = << >>

\* the rows of boe_records a file's own inserts added in the run
RowsOf(f) == {r \in DOMAIN insertedBy : insertedBy[r] = f}

\* the (crn, boe_no) pairs of a bag of rows
PairsOf(tab) == {<< r.crn, r.boe_no >> : r \in DOMAIN tab}

\* the records of a file that reach the insert
Insertable(content) ==
    IF content = Malformed THEN {}
    ELSE {content[i] : i \in {j \in 1..Len(content) : RecordFate(content[j]) = "insert"}}

\* C3 - declaration uniqueness, first write wins: boe_records (as committed
\* and as the running transaction sees it) holds at most one row per
\* (CRN, BOE number), each once; a record that presents a stored pair leaves
\* the stored row's boe_date, bl_number and payload as they are, and a
\* committed row never changes or goes away.
C3_UniqueFirstWriteWins ==
    /\ [](\A tab \in {ddb, dtx} : \A r, q \in DOMAIN tab :
             /\ tab[r] = 1
             /\ (r.crn = q.crn /\ r.boe_no = q.boe_no) => r = q)
    /\ [][/\ \A r \in DOMAIN ddb : r \in DOMAIN ddb' /\ ddb'[r] = ddb[r]
          /\ (dpc = "records" /\ dpc' = "records" /\ ridx' = ridx + 1) =>
                \A r \in DOMAIN dtx : r \in DOMAIN dtx' /\ dtx'[r] = dtx[r]]_vars

\* C3 witness: the record loop has passed a record whose pair was stored
\* already with another date, BL number and payload, from the same file or
\* from a file of an earlier run.
C3_Witness ==
    /\ dpc = "records"
    /\ ridx > 1
    /\ LET r == dIn[Head(dqueue)][ridx - 1]
       IN /\ RecordFate(r) = "insert"
          /\ BoeRow(r) \notin DOMAIN dtx
          /\ \E q \in DOMAIN dtx :
                /\ q.crn = r.crn /\ q.boe_no = r.boeNo
                /\ q.boe_date # BoeRow(r).boe_date /\ q.bl_number # r.blNumber
                /\ q.data # r

\* C4 - idempotence of declaration ingestion: a run of main_loader over
\* files whose insertable records are all stored already (the files were
\* loaded by an earlier run and placed back) ends with boe_records, rows and
\* row count, as it was when the run began.
C4_Idempotent ==
    (dpc \in {"done", "failed"} /\
     \A f \in DOMAIN dlist : \A r \in Insertable(dlist[f]) :
        << r.crn, r.boeNo >> \in PairsOf(dpre))
    => ddb = dpre

\* C4 witness: a second run has loaded and moved a file that an earlier run
\* had loaded, and has committed.
C4_Witness ==
    /\ dpc = "done"
    /\ druns = 2
    /\ ~aborted
    /\ dlist # << >>
    /\ dmoved = DOMAIN dlist
    /\ dloaded = DOMAIN dlist
    /\ \A f \in DOMAIN dlist :
          /\ Insertable(dlist[f]) # {}
          /\ \A r \in Insertable(dlist[f]) : << r.crn, r.boeNo >> \in PairsOf(dpre)
    /\ \E f \in DOMAIN dlist : \E r \in Insertable(dlist[f]) : BoeRow(r) \in DOMAIN dpre
    /\ ddb = dpre

\* C7 - per-file atomicity of declaration ingestion: when a run is over,
\* the rows a file added are all committed or none is, and of a file whose
\* load failed (an exception, also after some of its records were inserted)
\* no row is in the store.
C7_PerFileAtomicity ==
    dpc \in {"done", "failed"} =>
        \A f \in DOMAIN dlist :
            /\ RowsOf(f) \subseteq DOMAIN ddb \/ RowsOf(f) \cap DOMAIN ddb = {}
            /\ f \in dfailed => RowsOf(f) \cap DOMAIN ddb = {}

\* C8 - failure isolation in the declaration driver: when the store rejected
\* a statement of a file of the run, the driver has gone on to every file of
\* the run, and the rows of every file that loaded without error, before or
\* after the rejected one, are committed.
C8_FailureIsolation ==
    (dpc = "done" /\ drejected # {}) =>
        /\ dloaded \cup dfailed = DOMAIN dlist
        /\ \A f \in dloaded : RowsOf(f) \subseteq DOMAIN ddb

\* C9 - a failed file is never marked processed: no file whose ingestion
\* failed in a run (declarations: load_file_to_db ended in its except;
\* manifests: ingest_manifest_data returned False) was moved by that run into
\* the loader's processed directory.
C9_FailedNeverProcessed ==
    /\ dfailed \cap dmoved = {}
    /\ failed \cap moved = {}

\* the run of main_loader ended because shutil.move raised on the file at
\* the head of the queue
DeclMoveRaised == dpc = "failed" /\ dqueue # << >>

\* the manifest files of the run whose ingestion returned True and whose
\* move raised
XmlMoveRaised ==
    IF xpc = "idle" THEN {}
    ELSE {attempted[i] : i \in {j \in 1..Len(attempted) :
            /\ attempted[j] \notin failed \cup moved
            /\ (xpc \in {"calling", "exited"} => j < Len(attempted))}}

\* C11 - a file-move failure is non-fatal: when relocating a file raises
\* after that file was ingested, the rows of that file and of every other
\* file the run ingested are in the store, and the driver goes on with the
\* remaining files (declarations: every file of the run is loaded;
\* manifests: the header row of the file's CRN is stored).
C11_MoveFailureNonFatal ==
    /\ DeclMoveRaised =>
          /\ \A f \in dloaded : RowsOf(f) \subseteq DOMAIN ddb
          /\ Len(dqueue) = 1
    /\ \A f \in XmlMoveRaised :
          /\ f \in DOMAIN inDir
          /\ parse_manifest_xml(inDir[f]).header["crn"] \in DOMAIN db.hdr

\* C12 - document-level parse failure in the streaming header driver: the
\* call of stream_and_load on a header feed file that is not well-formed XML
\* ends with False, never with an exception; nothing of the file is stored;
\* and when the run is over the file is in the error directory and every
\* file of the run has been processed.
C12_MalformedFeedFile ==
    \A f \in DOMAIN flist :
        (flist[f] = MalformedFeed /\ f \in DOMAIN fresult) =>
            /\ fresult[f] = "False"
            /\ (Head(fqueue) = f /\ fpc = "returned") => fdb = fcallPre
            /\ fpc = "done" => (f \in DOMAIN fErr /\ DOMAIN fresult = DOMAIN flist)

\* a record without a CRN or without a BOE number
LacksIdentifier(r) == r.crn \in {None, ""} \/ r.boeNo \in {None, ""}

\* a record without a date of the form dd/mm/YYYY
LacksDate(r) == r.boeDate \in {None, ""} \/ FormatBoeDate(r.boeDate) = None

\* load_file_to_db has processed the file at the head of the queue to the end
ProcessedToEnd == dpc = "loaded" /\ Head(dqueue) \in dloaded

\* C13 as stated - skip counting in load_file_to_db: for a file of N records
\* of which K lack a CRN or a BOE number, processed to the end, at most
\* N - K inserts are issued, the skip count is K, and inserts plus skips
\* is N.
C13_SkipCountIsMissingIds ==
    ProcessedToEnd =>
        LET N == Len(dIn[Head(dqueue)])
            K == Cardinality({i \in 1..N : LacksIdentifier(dIn[Head(dqueue)][i])})
        IN /\ insert_count <= N - K
           /\ skip_count = K
           /\ insert_count + skip_count = N

\* C13 - skip counting in load_file_to_db: for a file of N records of which
\* K lack a CRN, a BOE number or a date of the form dd/mm/YYYY, processed to
\* the end, exactly N - K inserts are issued, the skip count is K, and
\* inserts plus skips is N.
C13_SkipCount ==
    ProcessedToEnd =>
        LET N == Len(dIn[Head(dqueue)])
            K == Cardinality({i \in 1..N : \/ LacksIdentifier(dIn[Head(dqueue)][i])
                                           \/ LacksDate(dIn[Head(dqueue)][i])})
        IN /\ insert_count = N - K
           /\ skip_count = K
           /\ insert_count + skip_count = N

\* C13 witness: a file of two records, one of them with a date and without
\* a CRN, has been processed to the end.
C13_Witness ==
    /\ ProcessedToEnd
    /\ Len(dIn[Head(dqueue)]) = 2
    /\ \E i \in 1..2 : LET r == dIn[Head(dqueue)][i]
                       IN r.crn = None /\ r.boeNo # None /\ ~LacksDate(r)
    /\ skip_count = 1
    /\ insert_count = 1

\* the records of the rows of a file that have 30 values or more, in order
FullRecords(content, now) ==
    LET full == SelectSeq(content, LAMBDA row : row.n >= ExpectedValues)
    IN [i \in 1..Len(full) |-> FeedRecord(full[i], now)]

\* C14 - short rows in the streaming header feed: when stream_and_load
\* returns True, boe_header has gained exactly the rows of the file with 30
\* values or more and the loaded-row count is their number, the rows with
\* fewer values left out; and a call that returns False found no row at
\* all, or could not convert a row with 30 values or more, or was refused
\* by the store: never because of a short row.
C14_ShortRowsDropped ==
    fpc = "returned" =>
        LET content == fIn[Head(fqueue)]
        IN /\ fret = "True" =>
                /\ loaded = Len(FullRecords(content, fclock))
                /\ fdb = ExecuteMany(fcallPre, FullRecords(content, fclock))
           /\ fret = "False" =>
                \/ content \in {MalformedFeed, << >>}
                \/ fcause = "store"
                \/ \E i \in 1..Len(content) :
                      content[i].n >= ExpectedValues /\ RecordRaises(content[i])

\* C14 witness: a file with a short row and a row of 30 values has been
\* loaded, and one row was counted.
C14_Witness ==
    /\ fpc = "returned"
    /\ fret = "True"
    /\ loaded = 1
    /\ \E i, j \in 1..Len(fIn[Head(fqueue)]) :
          /\ fIn[Head(fqueue)][i].n < ExpectedValues
          /\ fIn[Head(fqueue)][j].n >= ExpectedValues

\* a well-formed document of the given type for CRN C1 whose only BL block
\* is B1 with the given version number
IsDocFor(doc, doc_type, version) ==
    LET p == parse_manifest_xml(doc)
    IN /\ ~p.raised /\ ~p.empty
       /\ p.header["crn"] = "C1"
       /\ p.header["document_type"] = doc_type
       /\ Len(p.bl_list) = 1
       /\ p.bl_list[1].bl_number = "B1"
       /\ p.bl_list[1].bl_version_no = version

\* the second of two calls has returned True: an HMNDOC for C1 with B1
\* version 1 was ingested into the empty store, then an AMNDOC for C1 with
\* B1 version 2 and another consignee name
HomeThenAmendment ==
    /\ ipc = "returned" /\ ret = "True" /\ clock = 2
    /\ IsDocFor(lastOk, "HMNDOC", 1)
    /\ IsDocFor(cur, "AMNDOC", 2)
    /\ parse_manifest_xml(cur).bl_list[1].consignee_name
          # parse_manifest_xml(lastOk).bl_list[1].consignee_name

\* C15 - home-then-amendment scenario: after an HMNDOC for C1 with B1
\* version 1 and then an AMNDOC for C1 with B1 version 2 and a different
\* consignee name, from an empty store, B1 has two stored rows, exactly one
\* of them with latest_bl = TRUE, and that row has version 2 and the
\* amendment's consignee name.
C15_HomeThenAmendment ==
    HomeThenAmendment =>
        LET rows == BlRows(db, "C1", "B1")
            latest == {r \in rows : r.latest_bl}
        IN /\ Cardinality(rows) = 2
           /\ Cardinality(latest) = 1
           /\ \A r \in latest :
                 /\ r.bl_version_no = 2
                 /\ r.consignee_name = parse_manifest_xml(cur).bl_list[1].consignee_name

\* C15 witness: the scenario has run and both versions are stored.
C15_Witness ==
    /\ HomeThenAmendment
    /\ {r.bl_version_no : r \in BlRows(db, "C1", "B1")} = {1, 2}

RECURSIVE RowCount(_)
\* the number of rows of a table kept as a bag
RowCount(tab) ==
    IF DOMAIN tab = {} THEN 0
    ELSE LET r == CHOOSE q \in DOMAIN tab : TRUE
         IN tab[r] + RowCount([q \in DOMAIN tab \ {r} |-> tab[q]])

\* the rows of boe_header without the load time
FeedData(tab) == {[r EXCEPT !.ingested_at = 0] : r \in DOMAIN tab}

\* every row of the file with 30 values or more is in the table, loaded by
\* an earlier call
LoadedBefore(content, tab) ==
    /\ content # MalformedFeed
    /\ \A i \in 1..Len(content) :
          content[i].n >= ExpectedValues =>
             (~RecordRaises(content[i]) /\ FeedRecord(content[i], 0) \in FeedData(tab))

\* C16 - idempotence of the streaming header loader: a run that loads with
\* success only files whose rows an earlier load had stored (the same files,
\* placed back) ends with the same rows in boe_header, and the same number
\* of rows, as it began with.
C16_FeedIdempotent ==
    (/\ fpc = "done"
     /\ \A f \in DOMAIN flist : fresult[f] = "True" /\ LoadedBefore(flist[f], fpre))
    => /\ FeedData(fdb) = FeedData(fpre)
       /\ RowCount(fdb) = RowCount(fpre)

\* C17 - accuracy of the declaration summary: the count load_file_to_db
\* returns for a file is the number of boe_records rows the file added, and
\* the total rows inserted that main_loader prints after its commit is the
\* number of rows the run added to the store.
C17_SummaryAccurate ==
    /\ dpc = "loaded" => inserted = Cardinality(RowsOf(Head(dqueue)))
    /\ dpc = "done" => total_inserted = RowCount(ddb) - RowCount(dpre)

\* C18 - amendments always establish their version: after a successful
\* ingestion of an AMNDOC or ADLDOC document, for every BL of the document
\* (its last block, when the document names the BL more than once) a stored
\* row with the document's CRN, BL number and version number exists, has
\* latest_bl = TRUE and carries the document's consignee name, whatever rows
\* of that BL number were stored before.
C18_AmendmentEstablishesVersion ==
    (/\ ipc = "returned" /\ ret = "True"
     /\ Parsed.header["document_type"] \in {"AMNDOC", "ADLDOC"})
    => \A i \in 1..Len(Parsed.bl_list) :
          (\A j \in (i + 1)..Len(Parsed.bl_list) :
              Parsed.bl_list[j].bl_number # Parsed.bl_list[i].bl_number)
          => \E r \in db.bl :
                /\ r.crn = Parsed.header["crn"]
                /\ r.bl_number = Parsed.bl_list[i].bl_number
                /\ r.bl_version_no = Parsed.bl_list[i].bl_version_no
                /\ r.latest_bl
                /\ r.consignee_name = Parsed.bl_list[i].consignee_name

\* the rows of a child table under the versions of a set of BL rows
ChildrenOf(bag, rows) ==
    [c \in {q \in DOMAIN bag : \E r \in rows : q.bl_number = r.bl_number
                                              /\ q.bl_version_no = r.bl_version_no}
        |-> bag[c]]

\* a call on an HMNDOC document has returned True
HomeIngested == ipc = "returned" /\ ret = "True" /\ Parsed.header["document_type"] = "HMNDOC"

\* C19 - first-receipt frame condition: after the ingestion of an HMNDOC
\* document, every BL number of the document that had a row under the
\* document's CRN before has its manifest_bl_details rows, and the container
\* and vehicle rows of their versions, as they were before the call; and no
\* BL of the document has gained a second version under the CRN.
C19_FirstReceiptFrame ==
    HomeIngested =>
        \A i \in 1..Len(Parsed.bl_list) :
            LET b == Parsed.bl_list[i].bl_number
                crn == Parsed.header["crn"]
                before == BlRows(pre, crn, b)
                after == BlRows(db, crn, b)
            IN /\ before # {} =>
                    /\ after = before
                    /\ ChildrenOf(db.cont, before) = ChildrenOf(pre.cont, before)
                    /\ ChildrenOf(db.veh, before) = ChildrenOf(pre.veh, before)
               /\ before = {} => Cardinality(after) <= 1

\* C19 witness: an HMNDOC was ingested that names a BL stored under its CRN
\* with another version number and another consignee name, children included.
C19_Witness ==
    /\ HomeIngested
    /\ \E i \in 1..Len(Parsed.bl_list) :
          LET before == BlRows(pre, Parsed.header["crn"], Parsed.bl_list[i].bl_number)
          IN /\ before # {}
             /\ \A r \in before : /\ r.bl_version_no # Parsed.bl_list[i].bl_version_no
                                  /\ r.consignee_name # Parsed.bl_list[i].consignee_name
             /\ ChildrenOf(pre.cont, before) # << >>

\* a call on an AMNDOC or ADLDOC document without a vessel name has returned
\* True, for a CRN that had no header row
AmendmentBeforeBase ==
    /\ ipc = "returned" /\ ret = "True"
    /\ Parsed.header["document_type"] \in {"AMNDOC", "ADLDOC"}
    /\ Parsed.header["vessel_name"] = ""
    /\ Parsed.header["crn"] \notin DOMAIN pre.hdr

\* a call on an HMNDOC document has returned, the call before it having
\* been an amendment without vessel name that made the header row of the CRN
BaseAfterAmendment ==
    /\ ipc = "returned" /\ clock = 2
    /\ Parsed.header["document_type"] = "HMNDOC"
    /\ parse_manifest_xml(lastOk).header["document_type"] \in {"AMNDOC", "ADLDOC"}
    /\ parse_manifest_xml(lastOk).header["vessel_name"] = ""
    /\ parse_manifest_xml(lastOk).header["crn"] = Parsed.header["crn"]

\* C20 - amendment before base: after an AMNDOC or ADLDOC without a vessel
\* name is ingested for a CRN without header row, the header row holds the
\* CRN, the document type and the rotation number and every other header
\* field is null; an HMNDOC ingested next for that CRN succeeds unless the
\* store fails, and its non-null header fields are all stored.
C20_AmendmentBeforeBase ==
    /\ AmendmentBeforeBase =>
          LET row == db.hdr[Parsed.header["crn"]]
          IN \A c \in HeaderColSet :
                row[c] = IF c \in {"crn", "document_type", "rotation_no"}
                         THEN Parsed.header[c] ELSE None
    /\ BaseAfterAmendment =>
          /\ errAt = "none" => ret = "True"
          /\ ret = "True" =>
                \A c \in HeaderColSet :
                   Parsed.header[c] # None => db.hdr[Parsed.header["crn"]][c] = Parsed.header[c]

\* ------------------------------------------------------------------ C21
\* the place of a file in a duplicate-free list (0 when it is not there)
PlaceIn(q, f) ==
    IF \E i \in 1..Len(q) : q[i] = f THEN CHOOSE i \in 1..Len(q) : q[i] = f ELSE 0

\* C21: within one run of process_xml_files every file whose name contains
\* HMNDOC (in any letter case) is attempted before every file whose name
\* does not, whatever the order of the listing, and two attempted files of
\* the same group are attempted in the order of the listing.
C21_HmndocFirst ==
    \A i, j \in 1..Len(attempted) :
        i < j =>
            /\ SortKey(attempted[i]) <= SortKey(attempted[j])
            /\ SortKey(attempted[i]) = SortKey(attempted[j])
                  => PlaceIn(listing, attempted[i]) < PlaceIn(listing, attempted[j])

\* a run whose listing had an amendment file before a home file attempted
\* both files, the home file first
C21_Witness ==
    /\ Len(attempted) = 2
    /\ Len(listing) = 2
    /\ SortKey(listing[1]) = 1
    /\ SortKey(listing[2]) = 0
    /\ attempted[1] = listing[2]

\* ------------------------------------------------------------------ C22
\* how often the run called ingest_manifest_data on a file
TimesAttempted(f) == Cardinality({i \in 1..Len(attempted) : attempted[i] = f})

\* C22 - failure isolation in the manifest driver: when the ingestion of a
\* file fails (parse failure, database error, or the store cannot be reached
\* when the connection is opened) the rows committed by the earlier files
\* stay in the store, and at the end of the run every listed file that was
\* still in the input directory when its turn came has been attempted
\* exactly once: the failure of one file never ends the run early.
C22_FailureIsolation ==
    /\ (xpc \in {"calling", "exited"} /\ ipc \in {"returned", "exited"} /\ ret # "True")
          => db = pre
    /\ xpc \in {"done", "exited"} =>
          \A i \in 1..Len(listing) :
              \/ TimesAttempted(listing[i]) = 1
              \/ TimesAttempted(listing[i]) = 0 /\ listing[i] \notin DOMAIN inDir

\* ------------------------------------------------------------------ C23
\* C23 - header parsing never raises on an absent block: for a well-formed
\* manifest document in which an expected element or a whole header block
\* (DocumentReference, DocumentExchangeDetails, ManifestHeaderDetails,
\* VesselAircraftDetails, PortDetails, ArrivalDetails, DocumentSummary) is
\* absent, parse_manifest_xml raises no exception and returns a header in
\* which every absent field has its default ('' for text, null for a date,
\* '[]' for the notify parties).
C23_ParserNeverRaises ==
    (ipc \notin {"idle", "exited"} /\ cur.wellformed) =>
        /\ ~Parsed.raised
        /\ errAt # "parse"
        /\ \A c \in HeaderColSet \ {"notify_parties"} :
              cur.hdr[c] = Absent => Parsed.header[c] = IF c \in DateCols THEN None ELSE ""
        /\ cur.notify = << >> => Parsed.header["notify_parties"] = "[]"

\* ------------------------------------------------------------------ C24
\* a record with a defect of its own: no usable boeHeader, date, CRN or BOE
\* number
Defective(r) ==
    r.boeHeader \in {"null", "missing"} \/ LacksDate(r) \/ LacksIdentifier(r)

\* C24 - record-level defects never abort a declaration file: when
\* load_file_to_db is through with a file of N records that the store did
\* not reject, it has processed the file to the end, has skipped and counted
\* every record whose date, CRN or BOE number is absent, null or unparseable
\* (a record whose boeHeader is null or missing included), and has issued
\* the insert of every other record, the ones after a defective record too.
C24_DefectsNeverAbort ==
    (dpc = "loaded" /\ dIn[Head(dqueue)] # Malformed /\ ~aborted) =>
        LET N == Len(dIn[Head(dqueue)])
            K == Cardinality({i \in 1..N : Defective(dIn[Head(dqueue)][i])})
        IN /\ Head(dqueue) \in dloaded
           /\ skip_count = K
           /\ insert_count = N - K

\* ------------------------------------------------------------------ C25
\* C25 - field-level malformation never aborts the header feed load: when
\* stream_and_load returns from a well-formed file with rows that the store
\* did not refuse, it returns True, and every row with 30 values or more is
\* loaded, a value that is no valid number stored as the default (0 for the
\* integer position, null for the float positions) and a value that is no
\* valid timestamp as null.
C25_MalformedFieldsDegrade ==
    (fpc = "returned" /\ fIn[Head(fqueue)] \notin {MalformedFeed, << >>} /\ fcause # "store") =>
        LET content == fIn[Head(fqueue)]
        IN /\ fret = "True"
           /\ loaded = Len(FullRecords(content, fclock))
           /\ fdb = ExecuteMany(fcallPre, FullRecords(content, fclock))

\* ------------------------------------------------------------------ C27
\* C27 - last_amended_at tracks ingestion: after a successful ingestion for a
\* CRN the header row's last_amended_at is the time of that ingestion, no
\* header row's last_amended_at is ever earlier than before the call, and a
\* failed (rolled back) ingestion leaves every last_amended_at as it was.
C27_LastAmendedTracksIngestion ==
    ipc = "returned" =>
        /\ ret = "True" =>
              /\ Parsed.header["crn"] \in DOMAIN db.hdr
              /\ db.hdr[Parsed.header["crn"]]["last_amended_at"] = clock
        /\ \A c \in DOMAIN pre.hdr :
              /\ c \in DOMAIN db.hdr
              /\ db.hdr[c]["last_amended_at"] >= pre.hdr[c]["last_amended_at"]
        /\ ret = "False" =>
              /\ DOMAIN db.hdr = DOMAIN pre.hdr
              /\ \A c \in DOMAIN pre.hdr :
                    db.hdr[c]["last_amended_at"] = pre.hdr[c]["last_amended_at"]

\* C27 witness: a second ingestion for a CRN has succeeded and the header
\* row carries its time, later than the time it carried before.
C27_Witness ==
    /\ ipc = "returned" /\ ret = "True"
    /\ Parsed.header["crn"] \in DOMAIN pre.hdr
    /\ pre.hdr[Parsed.header["crn"]]["last_amended_at"] < clock
    /\ db.hdr[Parsed.header["crn"]]["last_amended_at"] = clock

\* ------------------------------------------------------------------ C28
\* C28 - processed implies committed, declaration driver: at every point at
\* which a run of main_loader can end (its normal end, an exception in the
\* move of a later file, the failure of the final commit) every file the run
\* moved into the processed directory has each of its insertable
\* (CRN, BOE number) pairs in the committed store.
C28_ProcessedImpliesCommitted ==
    dpc \in {"done", "failed"} =>
        \A f \in dmoved :
            \A r \in Insertable(dlist[f]) : << r.crn, r.boeNo >> \in PairsOf(ddb)

\* ------------------------------------------------------------------ C29
\* the BL rows of a store that belong to another CRN
RowsOfOtherCrn(store, crn) == {r \in store.bl : r.crn # crn}

\* C29 - no cross-CRN interference: a successful ingestion of a document for
\* a CRN leaves every manifest_bl_details row of another CRN, and the
\* container and vehicle rows of the BL versions stored under another CRN,
\* as they were, also when the document names the same BL number and
\* version; and every BL that ingest_manifest_data treated as written is
\* stored under the CRN of the document.
C29_NoCrossCrnInterference ==
    (ipc = "returned" /\ ret = "True") =>
        LET crn == Parsed.header["crn"]
            others == RowsOfOtherCrn(pre, crn)
        IN /\ RowsOfOtherCrn(db, crn) = others
           /\ ChildrenOf(db.cont, others) = ChildrenOf(pre.cont, others)
           /\ ChildrenOf(db.veh, others) = ChildrenOf(pre.veh, others)
           /\ \A i \in 1..Len(Parsed.bl_list) :
                 LET b == Parsed.bl_list[i]
                 IN (<< crn, b.bl_number >> \in DOMAIN written
                        /\ written[<< crn, b.bl_number >>] = b.bl_version_no)
                    => \E r \in db.bl : /\ r.crn = crn
                                        /\ r.bl_number = b.bl_number
                                        /\ r.bl_version_no = b.bl_version_no

\* ------------------------------------------------------------------ C30
\* C30 - success implies the BLs are stored: whenever ingest_manifest_data
\* has returned True, every BL block of the file that has a BL number has a
\* manifest_bl_details row with its BL number and version, whatever the
\* document type, a type other than HMNDOC, AMNDOC and ADLDOC included.
C30_SuccessImpliesStored ==
    (ipc = "returned" /\ ret = "True") =>
        \A i \in 1..Len(Parsed.bl_list) :
            \E r \in db.bl : /\ r.bl_number = Parsed.bl_list[i].bl_number
                             /\ r.bl_version_no = Parsed.bl_list[i].bl_version_no

\* ------------------------------------------------------------------ C26
\* the committed rows of a (BL number, CRN) that are latest_bl = TRUE
LatestRows(crn, bl_number) ==
    {r \in rbl : r.by = 0 /\ r.crn = crn /\ r.bl_number = bl_number /\ r.latest_bl}

\* the last committed calls of the two writers were amendments of BL B1 with
\* different version numbers, in transactions that were open together, and
\* both versions are stored
ConcurrentAmendments ==
    /\ \A w \in Writers :
          /\ rlast[w].doc \in RaceDocs
          /\ parse_manifest_xml(rlast[w].doc).header["document_type"] \in {"AMNDOC", "ADLDOC"}
          /\ \E r \in rbl : /\ r.by = 0
                            /\ r.bl_number = "B1"
                            /\ r.bl_version_no
                                  = parse_manifest_xml(rlast[w].doc).bl_list[1].bl_version_no
    /\ rlast[1].doc # rlast[2].doc
    /\ rlast[1].now \in rlast[2].over
    /\ rlast[2].now \in rlast[1].over

\* C26 as stated - single-writer dependence: with one ingestion at a time at
\* most one row per (BL number, CRN) is latest_bl = TRUE, whereas two
\* ingestion transactions that amend the same BL of the same CRN at the same
\* time with different version numbers leave two rows with latest_bl = TRUE.
C26_ConcurrentAmendmentsLeaveTwoLatest ==
    /\ (\A w \in Writers : wover[w] = {} /\ rlast[w].over = {})
          => \A crn \in CRNs, b \in BLNumbers : Cardinality(LatestRows(crn, b)) <= 1
    /\ ConcurrentAmendments => Cardinality(LatestRows("C1", "B1")) = 2

\* C26 (amended) - the header upsert serialises the writers of a CRN: with
\* one ingestion at a time, and also with two ingestion transactions that
\* amend the same BL of the same CRN at the same time with different version
\* numbers, at most one committed row per (BL number, CRN) is
\* latest_bl = TRUE in every reachable state, because each transaction
\* upserts the header row of the CRN before its clear-then-insert step and
\* holds the lock of that row until it ends.
C26_HeaderUpsertSerialises ==
    \A crn \in CRNs, b \in BLNumbers : Cardinality(LatestRows(crn, b)) <= 1

\* C26 witness: two amendments of B1 with different versions, ingested in
\* transactions that were open together, are both committed, and one row is
\* the latest.
C26_Witness ==
    /\ ConcurrentAmendments
    /\ Cardinality(LatestRows("C1", "B1")) = 1

====
